---- MODULE Spec2Model ----
(***************************************************************************)
(* A model of the client-pipeline orchestrator (src/src/pipeline): the     *)
(* persisted entities (channels, messages, leads, replies, daily budget),  *)
(* the intake queue and processor, the outreach loop with its pause        *)
(* timestamp and RateLimiter, the reply poller, the private-reply          *)
(* listener, the forwarding pass, the janitor, channel discovery and the   *)
(* shutdown of the loops under the running flag.                           *)
(*                                                                         *)
(* The asyncio tasks are interleaved at their await points: one action is  *)
(* the code a task runs between two awaits that matter to the shared       *)
(* state.  Each subsystem has a specification of its own (SpecIntake,      *)
(* SpecOutreach, SpecPace, SpecRate, SpecReplies, SpecForward,             *)
(* SpecLifecycle, SpecPush, SpecDiscovery, SpecStop, SpecShutdown,         *)
(* SpecCrash, SpecRetry, SpecSentiment, SpecDead, SpecDiscLoop,            *)
(* SpecBudgetRow, SpecCycle, SpecRegistry, SpecPipeline) so that           *)
(* TLC explores it exhaustively; a specification leaves the variables of   *)
(* the other subsystems unchanged.  SpecWarmup and SpecDedup apply pure    *)
(* functions to bounded inputs.                                            *)
(*                                                                         *)
(* Wall-clock time `now` and the monotonic clock `mono` are in seconds.    *)
(***************************************************************************)
EXTENDS Integers, Sequences, FiniteSets, TLC

VARIABLES
    \* ---- persisted state (db/repository.py) ----
    channels,      \* Seq of channel rows, row id = index
    messages,      \* Seq of message rows, row id = index
    leads,         \* Seq of lead rows, row id = index
    replies,       \* Seq of reply rows, row id = index
    budget,        \* daily_budget: date -> row, for the dates that have a row
    \* ---- collector and intake queue ----
    queue,         \* asyncio.Queue[IncomingMessage], FIFO
    monitored,     \* Collector._monitored_chats
    \* ---- clocks ----
    now,           \* datetime.now(timezone.utc), seconds
    mono,          \* time.monotonic(), seconds
    \* ---- outreach loop (Orchestrator._outreach_loop) ----
    out,           \* the task: [pc, batch, idx]
    pausedUntil,   \* Orchestrator._outreach_paused_until
    lastSend,      \* RateLimiter._last_send
    \* ---- reply tasks ----
    dm,            \* one running instance of the private-reply handler
    poll,          \* the reply poller task
    thread,        \* messages of the platform under each lead's outreach message
    jan,           \* the janitor task
    \* ---- observations (what the collaborators were asked to do) ----
    verdicts,      \* per message row: how _process_message ended for it
    lastOutcome,   \* how the latest _process_message ended
    lastScore,     \* the relevance score the classifier returned to it, if any
    delivered,     \* number of IncomingMessages produced so far
    sender,        \* the attempts so far: their number, the monotonic time of the
                   \* latest one, the wall-clock time of the latest flood signal
    floodNotes,    \* Notifier.notify_peer_flood invocations
    posNotes,      \* Notifier.notify_positive_reply invocations, per lead
    \* ---- discovery (telegram/discovery.py) ----
    knownIds,      \* DiscoveryService._known_ids
    rejectedIds,   \* DiscoveryService._rejected_ids
    disc,          \* the _try_register call in progress and how the latest ended
    \* ---- Orchestrator.run / stop ----
    running,       \* Orchestrator._running
    loop,          \* where the processor, summary and discovery loops and run() are
    \* ---- utilities (utils/retry.py, utils/rate_limiter.py) ----
    retry,         \* a call through the retry_on_flood wrapper
    calc           \* the latest application of a pure function: its inputs and result

vars == <<channels, messages, leads, replies, budget, queue, monitored, now, mono,
          out, pausedUntil, lastSend, dm, poll, thread, jan,
          verdicts, lastOutcome, lastScore, delivered, sender, floodNotes, posNotes,
          knownIds, rejectedIds, disc, running, loop, retry, calc>>

dbVars == <<channels, messages, leads, replies, budget>>
intakeVars == <<queue, verdicts, lastOutcome, lastScore, delivered>>
outreachVars == <<out, pausedUntil, lastSend, sender, floodNotes>>
replyVars == <<dm, poll, thread, jan, posNotes>>
discVars == <<knownIds, rejectedIds, disc>>
lifeVars == <<running, loop>>
utilVars == <<retry, calc>>

(***************************************************************************)
(* Bounds of the model                                                     *)
(***************************************************************************)
MaxQueue == 2          \* messages waiting in the intake queue
MaxDeliveries == 3     \* IncomingMessages produced in one run
InitLeads == 2         \* Leads waiting in `new` when the outreach loop starts
MaxAttempts == 3       \* _send_outreach calls in one run
MaxTicks == 3          \* advances of the wall clock in one run
MaxMonoTicks == 3      \* seconds the monotonic clock advances on its own
MaxSends == 4          \* simulated sends of the pacing harness
MaxSendDuration == 3   \* seconds one simulated send may take
ContactedLeads == 1    \* leads already contacted when the reply handling starts
MaxReplies == 2        \* replies recorded in one run
MaxThreadReplies == 1  \* messages answering one outreach message

(***************************************************************************)
(* Values                                                                  *)
(***************************************************************************)
\* Python None for a timestamp column.
NoTime == -1
\* Python None for a row id or a platform message id (falsy, like 0).
NoId == 0

Max(a, b) == IF a >= b THEN a ELSE b

\* The rows of a table kept as a sequence.
Range(s) == {s[i] : i \in DOMAIN s}

(***************************************************************************)
(* DedupGate: Orchestrator._compute_text_hash                              *)
(* A text is a sequence of characters.  SHA-256 is taken to be injective:  *)
(* the digest of a normalized text is represented by that text.            *)
(***************************************************************************)
IsSpace(c) == c \in {" ", "\t"}

LowerChar(c) == IF c = "A" THEN "a" ELSE IF c = "B" THEN "b" ELSE c

\* str.lower()
LowerText(s) == [i \in 1..Len(s) |-> LowerChar(s[i])]

RECURSIVE LStrip(_)
LStrip(s) == IF s # <<>> /\ IsSpace(Head(s)) THEN LStrip(Tail(s)) ELSE s

RECURSIVE RStrip(_)
RStrip(s) == IF s # <<>> /\ IsSpace(s[Len(s)])
             THEN RStrip(SubSeq(s, 1, Len(s) - 1)) ELSE s

\* str.strip()
Strip(s) == RStrip(LStrip(s))

\* re.sub(r"\s+", " ", s)
RECURSIVE CollapseSpaces(_)
CollapseSpaces(s) ==
    IF s = <<>> THEN <<>>
    ELSE IF IsSpace(Head(s)) THEN <<" ">> \o CollapseSpaces(LStrip(s))
    ELSE <<Head(s)>> \o CollapseSpaces(Tail(s))

TextHashNoStrip(text) == CollapseSpaces(LowerText(text))

TextHash(text) == CollapseSpaces(LowerText(Strip(text)))

(***************************************************************************)
(* Inputs of the intake path                                               *)
(***************************************************************************)
\* Platform ids of the channels with a row.
KnownChats == {101, 102}
\* The <<chat id, platform message id>> pairs the platform delivers: two posts
\* of one channel, a post of another, and a post of a chat without a row.
Posts == {<<101, 1>>, <<101, 2>>, <<102, 1>>, <<103, 1>>}
\* Two spellings of one order, and a different text.
Texts == { <<"A", " ", " ", "b">>, <<" ", "a", "\t", "B", " ">>, <<"a", "b">> }
\* settings.classification_min_relevance (0.6), in tenths.
MinRelevance == 6
\* No classification result reached the relevance test.
NoScore == -1

BelowThresholdInclusive(score) == score <= MinRelevance

\* Line 213: score < settings.classification_min_relevance.
BelowThreshold(score) == score < MinRelevance

\* classify_message: None (no JSON, or not an order), an exception of the
\* transport, or a result with a relevance score (in tenths).
Scores == {5, 6, 8}
ClassifierResults ==
    {[kind |-> "null", score |-> 0], [kind |-> "raise", score |-> 0]}
    \cup {[kind |-> "ok", score |-> s] : s \in Scores}

GetChannelOrFirst(tid) ==
    LET hit == {c \in Range(channels) : c.telegram_id = tid}
    IN IF hit = {} THEN {c \in Range(channels) : c.id = 1} ELSE hit

(***************************************************************************)
(* Repository: channels, messages, leads                                   *)
(***************************************************************************)
\* Repository.get_channel_by_telegram_id: the rows with that platform id
\* (telegram_id is the conflict target of upsert_channel, so at most one).
GetChannelByTelegramId(tid) == {c \in Range(channels) : c.telegram_id = tid}

MessageKeyTakenWithText(m) ==
    \E r \in Range(messages) :
        /\ r.channel_id = m.channel_id
        /\ r.telegram_msg_id = m.telegram_msg_id
        /\ r.text_hash = m.text_hash

\* The uniqueness constraint of the messages table, which raises
\* IntegrityError in insert_message: (channel, platform message id).
MessageKeyTaken(m) ==
    \E r \in Range(messages) :
        r.channel_id = m.channel_id /\ r.telegram_msg_id = m.telegram_msg_id

InsertMessageAlways(m) == Len(messages) + 1

\* Repository.insert_message: the new row id, or None on a duplicate.
InsertMessageId(m) == IF MessageKeyTaken(m) THEN NoId ELSE Len(messages) + 1

HasLeadNever(h) == FALSE

\* Repository.has_lead_with_text_hash: leads JOIN messages on the hash.
HasLeadWithTextHash(h) ==
    \E l \in Range(leads) : messages[l.message_id].text_hash = h

\* Lead(message_id=..., status="new", relevance_score=...) as insert_lead
\* stores it: every other column NULL.
NewLead(id, msgId, score) ==
    [id |-> id, message_id |-> msgId, status |-> "new", relevance_score |-> score,
     outreach_msg_id |-> NoId, dm_msg_id |-> NoId,
     contacted_at |-> NoTime, replied_at |-> NoTime, forwarded_at |-> NoTime]

\* Repository.get_leads_by_status: the rows, ORDER BY id.
GetLeadsByStatus(st) == SelectSeq(leads, LAMBDA l : l.status = st)

\* Repository.update_lead: UPDATE leads SET <every column> WHERE id = lead.id;
\* the row is overwritten by the caller's copy, whatever it holds now.
UpdateLead(lead) == [leads EXCEPT ![lead.id] = lead]

(***************************************************************************)
(* Intake: the collector's queue and Orchestrator._process_message         *)
(***************************************************************************)
\* The collector (its live handler or backfill) puts an IncomingMessage on
\* the queue.  Which chats feed the queue is the collector's business; the
\* processor takes whatever is queued.
QueuePut ==
    /\ Len(queue) < MaxQueue
    /\ delivered < MaxDeliveries
    /\ \E post \in Posts, text \in Texts :
         queue' = Append(queue, [telegram_msg_id |-> post[2], chat_id |-> post[1],
                                 sender_id |-> 7, text |-> text])
    /\ delivered' = delivered + 1
    /\ UNCHANGED <<dbVars, monitored, now, mono, outreachVars, replyVars,
                   verdicts, lastOutcome, lastScore, discVars, lifeVars, utilVars>>

\* One iteration of _processor_loop: queue.get() and _process_message.
\* The processor is the only task that inserts messages and leads, and it
\* handles one message at a time.
ProcessMessage ==
    /\ loop.processor = "get"
    /\ loop' = [loop EXCEPT !.processor = IF running THEN "get" ELSE "exited"]
    /\ queue # <<>>
    /\ queue' = Tail(queue)
    /\ LET incoming == Head(queue)
           found == GetChannelByTelegramId(incoming.chat_id)
       IN
       IF found = {}
       THEN \* unknown channel: warning, return
            /\ lastOutcome' = "unknown_channel"
            /\ lastScore' = NoScore
            /\ UNCHANGED <<messages, leads, verdicts>>
       ELSE
       LET channel == CHOOSE c \in found : TRUE
           text_hash == TextHash(incoming.text)
           msg == [id |-> Len(messages) + 1,
                   telegram_msg_id |-> incoming.telegram_msg_id,
                   channel_id |-> channel.id,
                   sender_id |-> incoming.sender_id,
                   text |-> incoming.text,
                   text_hash |-> text_hash]
           msg_id == InsertMessageId(msg)
       IN
       IF msg_id = NoId
       THEN \* duplicate (channel, message id): return
            /\ lastOutcome' = "duplicate"
            /\ lastScore' = NoScore
            /\ UNCHANGED <<messages, leads, verdicts>>
       ELSE
       /\ messages' = Append(messages, msg)
       /\ IF HasLeadWithTextHash(text_hash)
          THEN \* cross-channel duplicate: no classification, no lead
               /\ lastOutcome' = "dup_hash"
               /\ lastScore' = NoScore
               /\ verdicts' = Append(verdicts, "dup_hash")
               /\ UNCHANGED leads
          ELSE \E result \in ClassifierResults :
               IF result.kind # "ok"
               THEN /\ lastOutcome' = result.kind
                    /\ lastScore' = NoScore
                    /\ verdicts' = Append(verdicts, result.kind)
                    /\ UNCHANGED leads
               ELSE IF BelowThreshold(result.score)
               THEN /\ lastOutcome' = "low"
                    /\ lastScore' = result.score
                    /\ verdicts' = Append(verdicts, "low")
                    /\ UNCHANGED leads
               ELSE /\ leads' = Append(leads, NewLead(Len(leads) + 1, msg_id, result.score))
                    /\ lastOutcome' = "lead"
                    /\ lastScore' = result.score
                    /\ verdicts' = Append(verdicts, "lead")
    /\ UNCHANGED <<channels, replies, budget, monitored, now, mono,
                   outreachVars, replyVars, delivered, discVars, running, utilVars>>

(***************************************************************************)
(* Time, RateLimiter and the daily budget                                  *)
(***************************************************************************)
HourSeconds == 3600
DaySeconds == 24 * HourSeconds
\* The wall clock is observed every twelve hours.
TickSeconds == DaySeconds \div 2

\* date.today(), as a day number.
Today(t) == t \div DaySeconds

\* RateLimiter._started_at: the construction time of the orchestrator.
StartedAt == 0
\* settings.rate_warmup_week_1 .. week_4_plus, as configured here.
WarmupWeek1 == 1
WarmupWeek2 == 2
WarmupWeek3 == 3
WarmupWeek4Plus == 4
\* settings.rate_min_delay, rate_max_delay as configured here, in seconds.
MinDelay == 2
MaxDelay == 3
\* time.monotonic() when the orchestrator starts: the uptime of a host that
\* has been up for longer than any configured delay.
MonoAtStart == 100
\* The hours of _pause_outreach(hours=24).
PauseHours == 24

DailyLimitWeeksFromZero(warmup, started_at, t) ==
    LET weeks == ((t - started_at) \div DaySeconds) \div 7 IN
    IF weeks <= 1 THEN warmup.week_1
    ELSE IF weeks <= 2 THEN warmup.week_2
    ELSE IF weeks <= 3 THEN warmup.week_3
    ELSE warmup.week_4_plus

\* RateLimiter.get_current_daily_limit, lines 29-37, for a limiter with that
\* warmup schedule, started at started_at and asked at wall-clock time t.
DailyLimit(warmup, started_at, t) ==
    LET weeks == ((t - started_at) \div DaySeconds) \div 7 + 1 IN
    IF weeks <= 1 THEN warmup.week_1
    ELSE IF weeks <= 2 THEN warmup.week_2
    ELSE IF weeks <= 3 THEN warmup.week_3
    ELSE warmup.week_4_plus

\* The schedule Orchestrator.__init__ hands to its RateLimiter.
ConfiguredWarmup ==
    [week_1 |-> WarmupWeek1, week_2 |-> WarmupWeek2, week_3 |-> WarmupWeek3,
     week_4_plus |-> WarmupWeek4Plus]

\* RateLimiter.get_current_daily_limit of the orchestrator's limiter at
\* wall-clock time t.
GetCurrentDailyLimit(t) == DailyLimit(ConfiguredWarmup, StartedAt, t)

\* RateLimiter.wait() called at monotonic time m with the drawn delay: the
\* monotonic time at which it returns (and which it stores in _last_send).
WaitReturnsAt(m, last, delay) ==
    LET elapsed == m - last
        remaining == delay - elapsed
    IN IF remaining > 0 THEN m + remaining ELSE m

\* Repository.get_daily_budget(max_sends): INSERT ... ON CONFLICT(date) DO NOTHING.
BudgetAfterGet(t, max_sends) ==
    IF Today(t) \in DOMAIN budget THEN budget
    ELSE budget @@ (Today(t) :> [date |-> Today(t), sends_used |-> 0,
                                   max_sends |-> max_sends])

\* Repository.increment_daily_sends: UPDATE ... WHERE date = today.
IncrementDailySends(b, t) ==
    IF Today(t) \in DOMAIN b
    THEN [b EXCEPT ![Today(t)].sends_used = @ + 1]
    ELSE b

BudgetExhaustedOffByOne(b) == b.sends_used > b.max_sends

\* The test of lines 243 and 260: budget.sends_used >= budget.max_sends.
BudgetExhausted(b) == b.sends_used >= b.max_sends

IsOutreachPausedNever(t) == FALSE

\* Orchestrator._is_outreach_paused at time t: its return value ...
IsOutreachPaused(t) == pausedUntil # NoTime /\ t < pausedUntil

\* ... and the value it leaves in _outreach_paused_until (cleared once past).
PausedUntilAfterCheck(t) ==
    IF pausedUntil # NoTime /\ t >= pausedUntil THEN NoTime ELSE pausedUntil

\* Orchestrator._pause_outreach(hours) at time t.
PauseUntil(t, hours) == t + hours * HourSeconds

(***************************************************************************)
(* Sender.send_outreach                                                    *)
(***************************************************************************)
\* What the platform answers to the thread reply and to the private message:
\* delivered, a permission failure (ChatWriteForbiddenError,
\* UserPrivacyRestrictedError), PeerFloodError, or an error that leaves
\* send_thread_reply / send_dm as an exception (FloodWaitError after the
\* retries, a transport error).
ThreadResponses == {"ok", "forbidden", "peer_flood", "error"}
DmResponses == {"ok", "privacy", "peer_flood", "error"}

\* Platform message ids of the delivered messages.
ThreadMsgId(leadId) == 10 + leadId
DmMsgId(leadId) == 20 + leadId

SendResult(thread_msg_id, dm_msg_id, peer_flood, raised, invoked, thread_sent) ==
    [thread_msg_id |-> thread_msg_id, dm_msg_id |-> dm_msg_id,
     peer_flood |-> peer_flood, raised |-> raised, invoked |-> invoked,
     thread_sent |-> thread_sent]

\* No Sender call was made: generate_thread_reply or generate_dm raised.
GenerationFailed == SendResult(NoId, NoId, FALSE, TRUE, FALSE, FALSE)

\* Sender.send_outreach for the lead, given the platform's answers.  `raised`
\* is an exception leaving send_outreach; thread_sent records whether the
\* thread message reached the platform (the result of a flood in send_dm
\* does not carry its id).
SendOutreach(leadId, user_id, tr, dr) ==
    IF tr = "peer_flood" THEN SendResult(NoId, NoId, TRUE, FALSE, TRUE, FALSE)
    ELSE IF tr = "error" THEN SendResult(NoId, NoId, FALSE, TRUE, TRUE, FALSE)
    ELSE LET thread_id == IF tr = "ok" THEN ThreadMsgId(leadId) ELSE NoId IN
         IF user_id = NoId
         THEN SendResult(thread_id, NoId, FALSE, FALSE, TRUE, tr = "ok")
         ELSE IF dr = "peer_flood"
         THEN SendResult(NoId, NoId, TRUE, FALSE, TRUE, tr = "ok")
         ELSE IF dr = "error"
         THEN SendResult(NoId, NoId, FALSE, TRUE, TRUE, tr = "ok")
         ELSE SendResult(thread_id, IF dr = "ok" THEN DmMsgId(leadId) ELSE NoId,
                         FALSE, FALSE, TRUE, tr = "ok")

(***************************************************************************)
(* Outreach loop: Orchestrator._outreach_loop and _send_outreach           *)
(***************************************************************************)
\* The loop holds no DailyBudget object.
NoBudget == [date |-> NoTime, sends_used |-> 0, max_sends |-> 0]

OutTask(pc, batch, idx, b, result) ==
    [pc |-> pc, batch |-> batch, idx |-> idx, budget |-> b, result |-> result]

\* Lines 235-251: the head of the while loop.  The three sleeps (paused,
\* budget exhausted, no leads) lead back to the head.
OutreachCycle ==
    /\ running
    /\ out.pc = "cycle"
    /\ pausedUntil' = PausedUntilAfterCheck(now)
    /\ IF IsOutreachPaused(now)
       THEN UNCHANGED <<out, budget>>
       ELSE /\ budget' = BudgetAfterGet(now, GetCurrentDailyLimit(now))
            /\ LET b == budget'[Today(now)]
                   new == GetLeadsByStatus("new")
               IN IF BudgetExhausted(b) \/ new = <<>>
                  THEN UNCHANGED out
                  ELSE out' = OutTask("check", new, 1, NoBudget, out.result)
    /\ UNCHANGED <<channels, messages, leads, replies, queue, monitored, now, mono,
                   lastSend, sender, floodNotes, replyVars, intakeVars, discVars, lifeVars, utilVars>>

\* Lines 253-261: the head of the for loop over the fetched leads.
OutreachCheck ==
    /\ out.pc = "check"
    /\ IF out.idx > Len(out.batch)
       THEN /\ out' = OutTask("cycle", <<>>, 0, NoBudget, out.result)
            /\ UNCHANGED <<pausedUntil, budget>>
       ELSE
       /\ pausedUntil' = PausedUntilAfterCheck(now)
       /\ IF IsOutreachPaused(now)
          THEN /\ out' = OutTask("cycle", <<>>, 0, NoBudget, out.result)
               /\ UNCHANGED budget
          ELSE /\ budget' = BudgetAfterGet(now, GetCurrentDailyLimit(now))
               /\ LET b == budget'[Today(now)] IN
                  IF BudgetExhausted(b)
                  THEN out' = OutTask("cycle", <<>>, 0, NoBudget, out.result)
                  ELSE out' = [out EXCEPT !.pc = "send", !.budget = b]
    /\ UNCHANGED <<channels, messages, leads, replies, queue, monitored, now, mono,
                   lastSend, sender, floodNotes, replyVars, intakeVars, discVars, lifeVars, utilVars>>

\* Lines 263-266 and 270-302: _send_outreach up to the Sender's result.  The
\* message and the channel of a lead always exist (rows are never deleted).
OutreachSend ==
    /\ out.pc = "send"
    /\ sender.attempts < MaxAttempts
    /\ \E generated \in BOOLEAN, tr \in ThreadResponses, dr \in DmResponses :
         LET lead == out.batch[out.idx]
             msg == messages[lead.message_id]
             res == IF generated
                    THEN SendOutreach(lead.id, msg.sender_id, tr, dr)
                    ELSE GenerationFailed
         IN /\ out' = [out EXCEPT !.pc = IF res.raised THEN "wait" ELSE "persist",
                                  !.result = res]
            /\ sender' = [attempts |-> sender.attempts + 1,
                          mono |-> mono,
                          floodAt |-> IF res.peer_flood THEN now ELSE sender.floodAt]
    /\ UNCHANGED <<dbVars, queue, monitored, now, mono, pausedUntil, lastSend,
                   floodNotes, replyVars, intakeVars, discVars, lifeVars, utilVars>>

\* Lines 304-316: the flood signal pauses and notifies; any other result
\* marks the lead contacted and counts the send.
OutreachPersist ==
    /\ out.pc = "persist"
    /\ out' = [out EXCEPT !.pc = "wait"]
    /\ LET res == out.result
           lead == out.batch[out.idx]
       IN IF res.peer_flood
          THEN /\ pausedUntil' = PauseUntil(now, PauseHours)
               /\ floodNotes' = floodNotes + 1
               /\ UNCHANGED <<leads, budget>>
          ELSE LET contacted == [lead EXCEPT !.outreach_msg_id = res.thread_msg_id,
                                             !.dm_msg_id = res.dm_msg_id,
                                             !.status = "contacted",
                                             !.contacted_at = now]
               IN /\ leads' = UpdateLead(contacted)
                  /\ budget' = IncrementDailySends(budget, now)
                  /\ UNCHANGED <<pausedUntil, floodNotes>>
    /\ UNCHANGED <<channels, messages, replies, queue, monitored, now, mono,
                   lastSend, sender, replyVars, intakeVars, discVars, lifeVars, utilVars>>

\* Line 268: RateLimiter.wait() after the attempt, then the next lead.
OutreachWait ==
    /\ out.pc = "wait"
    /\ out' = [out EXCEPT !.pc = "check", !.idx = @ + 1, !.result = GenerationFailed]
    /\ \E delay \in MinDelay..MaxDelay :
         /\ mono' = WaitReturnsAt(mono, lastSend, delay)
         /\ lastSend' = mono'
    /\ UNCHANGED <<dbVars, queue, monitored, now, pausedUntil, sender, floodNotes,
                   replyVars, intakeVars, discVars, lifeVars, utilVars>>

\* Orchestrator.get_status (the /status command): line 95 calls
\* _is_outreach_paused, which clears an expired pause.
GetStatus ==
    /\ pausedUntil' = PausedUntilAfterCheck(now)
    /\ UNCHANGED <<dbVars, queue, monitored, now, mono, out, lastSend, sender,
                   floodNotes, replyVars, intakeVars, discVars, lifeVars, utilVars>>

\* The monotonic clock advances by a second (an await takes time).
TickMono ==
    /\ mono < MonoAtStart + MaxMonoTicks
    /\ mono' = mono + 1
    /\ UNCHANGED <<dbVars, queue, monitored, now, outreachVars, replyVars, intakeVars, discVars, lifeVars, utilVars>>

\* The wall clock advances.
Tick ==
    /\ now < MaxTicks * TickSeconds
    /\ now' = now + TickSeconds
    /\ UNCHANGED <<dbVars, queue, monitored, mono, outreachVars, replyVars,
                   intakeVars, discVars, lifeVars, utilVars>>

(***************************************************************************)
(* Replies: Responder, Orchestrator._reply_poller, _forward_positive_replies*)
(***************************************************************************)
\* The hours of Settings.response_no_reply_ttl_hours, as configured here.
NoReplyTtlHours == 24
\* get_dead_channels(min_age_days=7).
DeadChannelAgeDays == 7

\* analyze_sentiment's verdicts as _process_reply stores them; "unclear" is
\* also what a null result or a result without the key becomes, and
\* "neutral" is never treated differently from it.
Sentiments == {"positive", "negative", "unclear"}

\* The users who write to the account privately: the authors of the two
\* contacted posts and a stranger.
DmSenders == {7, 8, 9}
\* Platform ids of a private reply and of the k-th reply in lead i's thread.
DmReplyMsgId == 51
ThreadReplyId(i, k) == 30 + 10 * i + k

NoLead == NewLead(NoId, NoId, 0)
DmIdle == [pc |-> "idle", lead |-> NoLead, msg_id |-> NoId]
PollTask(pc, batch, idx, msgs, verdict) ==
    [pc |-> pc, batch |-> batch, idx |-> idx, msgs |-> msgs, verdict |-> verdict]
PollIdle == PollTask("idle", <<>>, 0, <<>>, "none")
JanTask(pc, batch, idx) == [pc |-> pc, batch |-> batch, idx |-> idx]
JanIdle == JanTask("idle", <<>>, 0)

\* Reply(...) as insert_reply stores it.
NewReply(id, leadId, msgId, sentiment) ==
    [id |-> id, lead_id |-> leadId, telegram_msg_id |-> msgId, sentiment |-> sentiment]

\* Repository.get_replies_for_lead: the rows, ORDER BY id.
GetRepliesForLead(leadId) == SelectSeq(replies, LAMBDA r : r.lead_id = leadId)

RepliedCopyKeepsStatus(lead) == [lead EXCEPT !.replied_at = now]

RepliedCopyWithoutStamp(lead) == [lead EXCEPT !.status = "replied"]

\* Responder._process_reply after analyze_sentiment returned: insert_reply,
\* then update_lead with the caller's copy set to `replied`.
RepliedCopy(lead) == [lead EXCEPT !.status = "replied", !.replied_at = now]
RepliesAfterInsert(lead, msgId, sentiment) ==
    Append(replies, NewReply(Len(replies) + 1, lead.id, msgId, sentiment))

\* Sentiment analyses in flight.
InFlight == (IF dm.pc = "sentiment" THEN 1 ELSE 0)
            + (IF poll.pc = "sentiment" THEN 1 ELSE 0)

\* The members of a set of message ids, newest (largest id) first, as
\* iter_messages yields them.
RECURSIVE NewestFirst(_)
NewestFirst(S) ==
    IF S = {} THEN <<>>
    ELSE LET m == CHOOSE x \in S : \A y \in S : y <= x
         IN <<m>> \o NewestFirst(S \ {m})

\* A user answers the outreach message of lead i in the channel thread.
ThreadReplyPosted ==
    /\ \E i \in DOMAIN leads :
         /\ leads[i].outreach_msg_id # NoId
         /\ Cardinality(thread[i]) < MaxThreadReplies
         /\ thread' = [thread EXCEPT ![i] = @ \cup {ThreadReplyId(i, Cardinality(@) + 1)}]
    /\ UNCHANGED <<dbVars, queue, monitored, now, mono, outreachVars, dm, poll, jan,
                   posNotes, intakeVars, discVars, lifeVars, utilVars>>

\* register_dm_listener.handler up to analyze_sentiment: a private message
\* from someone else; the first contacted lead whose post that user wrote is
\* handed to _process_reply.  A sender without such a lead changes nothing.
DmReceive ==
    /\ dm.pc = "idle"
    /\ Len(replies) + InFlight < MaxReplies
    /\ \E s \in DmSenders :
         LET contacted == GetLeadsByStatus("contacted")
             hits == SelectSeq(contacted,
                               LAMBDA l : messages[l.message_id].sender_id = s)
         IN dm' = IF hits = <<>> THEN dm
                  ELSE [pc |-> "sentiment", lead |-> Head(hits), msg_id |-> DmReplyMsgId]
    /\ UNCHANGED <<dbVars, queue, monitored, now, mono, outreachVars, poll, thread,
                   jan, posNotes, intakeVars, discVars, lifeVars, utilVars>>

\* _process_reply of the handler, after the sentiment came back.
DmReply ==
    /\ dm.pc = "sentiment"
    /\ \E sentiment \in Sentiments :
         replies' = RepliesAfterInsert(dm.lead, dm.msg_id, sentiment)
    /\ leads' = UpdateLead(RepliedCopy(dm.lead))
    /\ dm' = DmIdle
    /\ UNCHANGED <<channels, messages, budget, queue, monitored, now, mono,
                   outreachVars, poll, thread, jan, posNotes, intakeVars, discVars, lifeVars, utilVars>>

\* _reply_poller wakes up: poll_thread_replies reads the contacted leads.
PollStart ==
    /\ running
    /\ poll.pc = "idle"
    /\ poll' = PollTask("thread", GetLeadsByStatus("contacted"), 1, <<>>, "none")
    /\ UNCHANGED <<dbVars, queue, monitored, now, mono, outreachVars, dm, thread,
                   jan, posNotes, intakeVars, discVars, lifeVars, utilVars>>

\* poll_thread_replies, the head of the loop over the leads: a lead without
\* outreach message is skipped, a failing iter_messages is logged and the
\* lead skipped; after the last lead _forward_positive_replies reads the
\* replied leads.
PollThread ==
    /\ poll.pc = "thread"
    /\ IF poll.idx > Len(poll.batch)
       THEN poll' = PollTask("fwd_read", GetLeadsByStatus("replied"), 1, <<>>, "none")
       ELSE LET lead == poll.batch[poll.idx] IN
            IF lead.outreach_msg_id = NoId
            THEN poll' = [poll EXCEPT !.idx = @ + 1]
            ELSE \E fetched \in BOOLEAN :
                   poll' = IF fetched
                           THEN [poll EXCEPT !.pc = "msgs",
                                             !.msgs = NewestFirst(thread[lead.id])]
                           ELSE [poll EXCEPT !.idx = @ + 1]
    /\ UNCHANGED <<dbVars, queue, monitored, now, mono, outreachVars, dm, thread,
                   jan, posNotes, intakeVars, discVars, lifeVars, utilVars>>

\* The loop over the thread's messages: one already recorded for the lead is
\* skipped, any other goes to analyze_sentiment.
PollCheck ==
    /\ poll.pc = "msgs"
    /\ IF poll.msgs = <<>>
       THEN poll' = [poll EXCEPT !.pc = "thread", !.idx = @ + 1]
       ELSE LET lead == poll.batch[poll.idx]
                existing == GetRepliesForLead(lead.id)
            IN IF \E r \in Range(existing) : r.telegram_msg_id = Head(poll.msgs)
               THEN poll' = [poll EXCEPT !.msgs = Tail(@)]
               ELSE /\ Len(replies) + InFlight < MaxReplies
                    /\ poll' = [poll EXCEPT !.pc = "sentiment"]
    /\ UNCHANGED <<dbVars, queue, monitored, now, mono, outreachVars, dm, thread,
                   jan, posNotes, intakeVars, discVars, lifeVars, utilVars>>

\* _process_reply of the poller, after the sentiment came back; the lead
\* object of the batch is the one it mutates.
PollReply ==
    /\ poll.pc = "sentiment"
    /\ LET lead == poll.batch[poll.idx] IN
         /\ \E sentiment \in Sentiments :
              replies' = RepliesAfterInsert(lead, Head(poll.msgs), sentiment)
         /\ leads' = UpdateLead(RepliedCopy(lead))
         /\ poll' = [poll EXCEPT !.pc = "msgs", !.msgs = Tail(@),
                                 !.batch[poll.idx] = RepliedCopy(lead)]
    /\ UNCHANGED <<channels, messages, budget, queue, monitored, now, mono,
                   outreachVars, dm, thread, jan, posNotes, intakeVars, discVars, lifeVars, utilVars>>

ForwardVerdictFirstDecisive(rs) ==
    LET decisive == SelectSeq(rs, LAMBDA r : r.sentiment \in {"positive", "negative"})
    IN IF decisive = <<>> THEN "none" ELSE Head(decisive).sentiment

\* What _forward_positive_replies decides from a lead's replies.
ForwardVerdict(rs) ==
    IF \E r \in Range(rs) : r.sentiment = "positive" THEN "positive"
    ELSE IF \E r \in Range(rs) : r.sentiment = "negative" THEN "negative"
    ELSE "none"

\* _forward_positive_replies, per replied lead: get_replies_for_lead.
ForwardRead ==
    /\ poll.pc = "fwd_read"
    /\ IF poll.idx > Len(poll.batch)
       THEN poll' = PollIdle
       ELSE LET verdict == ForwardVerdict(GetRepliesForLead(poll.batch[poll.idx].id))
            IN poll' = IF verdict = "none"
                       THEN [poll EXCEPT !.idx = @ + 1]
                       ELSE [poll EXCEPT !.pc = "fwd_write", !.verdict = verdict]
    /\ UNCHANGED <<dbVars, queue, monitored, now, mono, outreachVars, dm, thread,
                   jan, posNotes, intakeVars, discVars, lifeVars, utilVars>>

\* ... then the notification and the write of `forwarded`, or the write of
\* `negative`.  A notification that raises ends the pass (line 343).
ForwardWrite ==
    /\ poll.pc = "fwd_write"
    /\ LET lead == poll.batch[poll.idx] IN
         IF poll.verdict = "positive"
         THEN \E notified \in BOOLEAN :
                IF notified
                THEN /\ posNotes' = [posNotes EXCEPT ![lead.id] = @ + 1]
                     /\ leads' = UpdateLead([lead EXCEPT !.status = "forwarded",
                                                         !.forwarded_at = now])
                     /\ poll' = [poll EXCEPT !.pc = "fwd_read", !.idx = @ + 1,
                                             !.verdict = "none"]
                ELSE /\ poll' = PollIdle
                     /\ UNCHANGED <<leads, posNotes>>
         ELSE /\ leads' = UpdateLead([lead EXCEPT !.status = "negative"])
              /\ poll' = [poll EXCEPT !.pc = "fwd_read", !.idx = @ + 1,
                                      !.verdict = "none"]
              /\ UNCHANGED posNotes
    /\ UNCHANGED <<channels, messages, replies, budget, queue, monitored, now, mono,
                   outreachVars, dm, thread, jan, intakeVars, discVars, lifeVars, utilVars>>

(***************************************************************************)
(* Janitor: Orchestrator._janitor_loop                                     *)
(***************************************************************************)
\* Repository.get_stale_leads(ttl_hours) at time t.
GetStaleLeads(t, ttl_hours) ==
    SelectSeq(leads, LAMBDA l : /\ l.status = "contacted"
                                /\ l.contacted_at # NoTime
                                /\ t - l.contacted_at > ttl_hours * HourSeconds)

\* Repository.get_dead_channels(min_age_days) at time t.
GetDeadChannels(t, min_age_days) ==
    SelectSeq(channels,
              LAMBDA c : /\ c.is_active
                         /\ c.discovered_at # NoTime
                         /\ t - c.discovered_at > min_age_days * DaySeconds
                         /\ ~\E l \in Range(leads) :
                                messages[l.message_id].channel_id = c.id)

\* Lines 385-387: the janitor wakes up and reads the stale leads.
JanitorSweep ==
    /\ running
    /\ jan.pc = "idle"
    /\ LET stale == GetStaleLeads(now, NoReplyTtlHours) IN
         jan' = IF stale = <<>> THEN JanTask("dead", <<>>, 0)
                ELSE JanTask("mark", stale, 1)
    /\ UNCHANGED <<dbVars, queue, monitored, now, mono, outreachVars, dm, poll,
                   thread, posNotes, intakeVars, discVars, lifeVars, utilVars>>

\* Lines 388-390: the next lead of that list is written as no_reply.
JanitorMark ==
    /\ jan.pc = "mark"
    /\ leads' = UpdateLead([jan.batch[jan.idx] EXCEPT !.status = "no_reply"])
    /\ jan' = IF jan.idx = Len(jan.batch) THEN JanTask("dead", <<>>, 0)
              ELSE [jan EXCEPT !.idx = @ + 1]
    /\ UNCHANGED <<channels, messages, replies, budget, queue, monitored, now, mono,
                   outreachVars, dm, poll, thread, posNotes, intakeVars, discVars, lifeVars, utilVars>>

\* Line 397: the dead channels are read; with none the janitor sleeps.
JanitorDead ==
    /\ jan.pc = "dead"
    /\ LET dead == GetDeadChannels(now, DeadChannelAgeDays) IN
         jan' = IF dead = <<>> THEN JanIdle ELSE JanTask("deactivate", dead, 1)
    /\ UNCHANGED <<dbVars, queue, monitored, now, mono, outreachVars, dm, poll,
                   thread, posNotes, intakeVars, discVars, lifeVars, utilVars>>

\* Lines 398-401: the next dead channel is deactivated and unsubscribed.
JanitorDeactivate ==
    /\ jan.pc = "deactivate"
    /\ LET ch == jan.batch[jan.idx] IN
         /\ channels' = [channels EXCEPT ![ch.id].is_active = FALSE]
         /\ monitored' = monitored \ {ch.telegram_id}
    /\ jan' = IF jan.idx = Len(jan.batch) THEN JanIdle ELSE [jan EXCEPT !.idx = @ + 1]
    /\ UNCHANGED <<messages, leads, replies, budget, queue, now, mono, outreachVars,
                   dm, poll, thread, posNotes, intakeVars, discVars, lifeVars, utilVars>>

(***************************************************************************)
(* Channel discovery (telegram/discovery.py).  The startup search and the  *)
(* discovery loop run one after the other in a single task, so at most one *)
(* _try_register call is in progress at any time.                          *)
(***************************************************************************)
MaxChannels == 3       \* settings.discovery_max_channels, scaled down from 100
MaxRegistrations == 5  \* _try_register calls in one run

\* Platform ids the three strategies can come up with: 102 already has an
\* inactive row in the channels table, the others are new.
Candidates == {102, 201, 202, 203}

\* The source tag's strategy prefix: "search:<kw>", "forward:<chat>",
\* "description:<chat>".
Strategies == {"search", "forward", "description"}

\* The classifier's reply to the validation prompt: is_relevant true, false,
\* a non-boolean value, no such key, no JSON at all, or an exception.
ValidationAnswers == {"true", "false", "string_true", "missing", "null", "raise"}

NoValidation == [samples |-> 0, flood |-> FALSE, answer |-> "none"]

DiscTask(pc, id, source, attempts, validation, outcome) ==
    [pc |-> pc, id |-> id, source |-> source, attempts |-> attempts,
     validation |-> validation, outcome |-> outcome]

\* DiscoveryService.__init__: empty sets, no call yet.
DiscIdle ==
    /\ knownIds = {}
    /\ rejectedIds = {}
    /\ disc = DiscTask("idle", NoId, "none", 0, NoValidation, "none")

\* Repository.get_active_channels as DiscoveryService.init uses it.
ActiveTelegramIds(chs) == {c.telegram_id : c \in {r \in Range(chs) : r.is_active}}

AtCapacityExclusive == Cardinality(knownIds) > MaxChannels

\* DiscoveryService._at_capacity
AtCapacity == Cardinality(knownIds) >= MaxChannels

AlreadyKnownOnly(id) == id \in knownIds

\* Line 262: the id was registered or rejected before.
AlreadySeen(id) == id \in knownIds \/ id \in rejectedIds

ValidateChannelTruthy(samples, flood, answer) ==
    ~flood /\ samples > 0 /\ answer \in {"true", "string_true"}

\* DiscoveryService._validate_channel: a flood signal or any exception gives
\* False; so does an empty sample; otherwise the answer counts only if it is
\* a boolean, and then it is the result.
ValidateChannel(samples, flood, answer) ==
    IF flood THEN FALSE
    ELSE IF samples = 0 THEN FALSE
    ELSE IF answer = "raise" THEN FALSE
    ELSE IF answer \in {"null", "missing", "string_true"} THEN FALSE
    ELSE answer = "true"

\* Repository.upsert_channel: a new row, or on a telegram_id conflict the
\* existing row with is_active (username, title) overwritten.
UpsertChannel(tid, t) ==
    IF GetChannelByTelegramId(tid) = {}
    THEN Append(channels, [id |-> Len(channels) + 1, telegram_id |-> tid,
                           is_active |-> TRUE, discovered_at |-> t])
    ELSE [i \in DOMAIN channels |->
             IF channels[i].telegram_id = tid
             THEN [channels[i] EXCEPT !.is_active = TRUE]
             ELSE channels[i]]

\* The one text message a backfill of a newly discovered channel enqueues.
BackfillMessage(tid) ==
    [telegram_msg_id |-> 1, chat_id |-> tid, sender_id |-> 7, text |-> <<"a", "b">>]

TryRegisterSkipsStoredCheck ==
    /\ loop.discovery = "cycle"
    /\ disc.pc = "idle"
    /\ disc.attempts < MaxRegistrations
    /\ \E c \in Candidates \cup knownIds, source \in Strategies, resolved \in BOOLEAN :
         LET ended(outcome) ==
                 DiscTask("idle", c, source, disc.attempts + 1, NoValidation, outcome)
         IN
         IF AlreadySeen(c)
         THEN disc' = ended(IF c \in knownIds THEN "known" ELSE "rejected_before")
         ELSE IF AtCapacity
         THEN disc' = ended("capacity")
         ELSE IF source = "forward" /\ ~resolved
         THEN disc' = ended("unresolved")
         ELSE disc' = DiscTask("validate", c, source, disc.attempts + 1,
                               NoValidation, "none")
    /\ UNCHANGED <<dbVars, queue, monitored, now, mono, outreachVars, replyVars,
                   verdicts, lastOutcome, lastScore, delivered, knownIds, rejectedIds,
                   lifeVars, utilVars>>

TryRegisterRejectsUnresolved ==
    /\ loop.discovery = "cycle"
    /\ disc.pc = "idle"
    /\ disc.attempts < MaxRegistrations
    /\ \E c \in Candidates \cup knownIds, source \in Strategies, resolved \in BOOLEAN :
         LET ended(outcome) ==
                 DiscTask("idle", c, source, disc.attempts + 1, NoValidation, outcome)
         IN
         IF AlreadySeen(c)
         THEN /\ disc' = ended(IF c \in knownIds THEN "known" ELSE "rejected_before")
              /\ UNCHANGED <<knownIds, rejectedIds>>
         ELSE IF AtCapacity
         THEN /\ disc' = ended("capacity")
              /\ UNCHANGED <<knownIds, rejectedIds>>
         ELSE IF GetChannelByTelegramId(c) # {}
         THEN /\ knownIds' = knownIds \cup {c}
              /\ disc' = ended("existing")
              /\ UNCHANGED rejectedIds
         ELSE IF source = "forward" /\ ~resolved
         THEN /\ disc' = ended("unresolved")
              /\ rejectedIds' = rejectedIds \cup {c}
              /\ UNCHANGED knownIds
         ELSE /\ disc' = DiscTask("validate", c, source, disc.attempts + 1,
                                  NoValidation, "none")
              /\ UNCHANGED <<knownIds, rejectedIds>>
    /\ UNCHANGED <<dbVars, queue, monitored, now, mono, outreachVars, replyVars,
                   verdicts, lastOutcome, lastScore, delivered, lifeVars, utilVars>>

\* _try_register, lines 262-281: the checks made before validation.  Only
\* the forward strategy passes neither username nor title, so only it has
\* to resolve the entity, which can fail.
TryRegister ==
    /\ loop.discovery = "cycle"
    /\ disc.pc = "idle"
    /\ disc.attempts < MaxRegistrations
    /\ \E c \in Candidates \cup knownIds, source \in Strategies, resolved \in BOOLEAN :
         LET ended(outcome) ==
                 DiscTask("idle", c, source, disc.attempts + 1, NoValidation, outcome)
         IN
         IF AlreadySeen(c)
         THEN /\ disc' = ended(IF c \in knownIds THEN "known" ELSE "rejected_before")
              /\ UNCHANGED knownIds
         ELSE IF AtCapacity
         THEN /\ disc' = ended("capacity")
              /\ UNCHANGED knownIds
         ELSE IF GetChannelByTelegramId(c) # {}
         THEN /\ knownIds' = knownIds \cup {c}
              /\ disc' = ended("existing")
         ELSE IF source = "forward" /\ ~resolved
         THEN /\ disc' = ended("unresolved")
              /\ UNCHANGED knownIds
         ELSE /\ disc' = DiscTask("validate", c, source, disc.attempts + 1,
                                  NoValidation, "none")
              /\ UNCHANGED knownIds
    /\ UNCHANGED <<dbVars, queue, monitored, now, mono, outreachVars, replyVars,
                   verdicts, lastOutcome, lastScore, delivered, rejectedIds, lifeVars, utilVars>>

\* Lines 284-288 with _validate_channel: a candidate that is not validated
\* as relevant is remembered as rejected.
Validate ==
    /\ disc.pc = "validate"
    /\ \E samples \in 0..1, flood \in BOOLEAN, answer \in ValidationAnswers :
         LET v == [samples |-> samples, flood |-> flood, answer |-> answer] IN
         IF ValidateChannel(samples, flood, answer)
         THEN /\ disc' = [disc EXCEPT !.pc = "persist", !.validation = v]
              /\ UNCHANGED rejectedIds
         ELSE /\ rejectedIds' = rejectedIds \cup {disc.id}
              /\ disc' = [disc EXCEPT !.pc = "idle", !.validation = v,
                                      !.outcome = "rejected"]
    /\ UNCHANGED <<dbVars, queue, monitored, now, mono, outreachVars, replyVars,
                   verdicts, lastOutcome, lastScore, delivered, knownIds, lifeVars, utilVars>>

PersistWithoutRemembering ==
    /\ disc.pc = "persist"
    /\ channels' = UpsertChannel(disc.id, now)
    /\ monitored' = monitored \cup {disc.id}
    /\ \E backfilled \in BOOLEAN :
         queue' = IF backfilled THEN Append(queue, BackfillMessage(disc.id)) ELSE queue
    /\ disc' = [disc EXCEPT !.pc = "idle", !.outcome = "registered"]
    /\ UNCHANGED <<messages, leads, replies, budget, now, mono, outreachVars, replyVars,
                   verdicts, lastOutcome, lastScore, delivered, knownIds, rejectedIds,
                   lifeVars, utilVars>>

\* Lines 290-314: the channel is persisted, remembered, subscribed and
\* backfilled (the backfill may enqueue nothing, or fail and be logged).
Persist ==
    /\ disc.pc = "persist"
    /\ channels' = UpsertChannel(disc.id, now)
    /\ knownIds' = knownIds \cup {disc.id}
    /\ monitored' = monitored \cup {disc.id}
    /\ \E backfilled \in BOOLEAN :
         queue' = IF backfilled THEN Append(queue, BackfillMessage(disc.id)) ELSE queue
    /\ disc' = [disc EXCEPT !.pc = "idle", !.outcome = "registered"]
    /\ UNCHANGED <<messages, leads, replies, budget, now, mono, outreachVars, replyVars,
                   verdicts, lastOutcome, lastScore, delivered, rejectedIds, lifeVars, utilVars>>

(***************************************************************************)
(* Orchestrator.run and stop: the loops under the _running flag             *)
(***************************************************************************)
\* Where the loops without a state of their own are when run() has started
\* them: the processor waits in queue.get, the summary loop sleeps until
\* 21:00, and there is no discovery loop unless discovery is enabled.  run()
\* itself waits in asyncio.gather and has cancelled no task.
LoopsAtStart ==
    [processor |-> "get", summary |-> "sleep", discovery |-> "none",
     run |-> "gather", cancel |-> FALSE]

\* Orchestrator.__init__: _running = True.
LifeIdle ==
    /\ running = TRUE
    /\ loop = LoopsAtStart

\* Orchestrator.stop, called by the signal handler.
Stop ==
    /\ running
    /\ running' = FALSE
    /\ UNCHANGED <<dbVars, queue, monitored, now, mono, outreachVars, replyVars,
                   verdicts, lastOutcome, lastScore, delivered, discVars, loop, utilVars>>

\* _processor_loop: queue.get times out on an empty queue and the head of
\* the loop finds the flag cleared (with the flag set the loop waits again).
ProcessorTimeout ==
    /\ loop.processor = "get"
    /\ queue = <<>>
    /\ ~running
    /\ loop' = [loop EXCEPT !.processor = "exited"]
    /\ UNCHANGED <<dbVars, queue, monitored, now, mono, outreachVars, replyVars,
                   verdicts, lastOutcome, lastScore, delivered, discVars, running, utilVars>>

\* _outreach_loop: the head of the while loop finds the flag cleared.
OutreachExit ==
    /\ out.pc = "cycle"
    /\ ~running
    /\ out' = [out EXCEPT !.pc = "exited"]
    /\ UNCHANGED <<dbVars, queue, monitored, now, mono, pausedUntil, lastSend, sender,
                   floodNotes, replyVars, intakeVars, discVars, lifeVars, utilVars>>

\* _reply_poller: after its sleep the head of the loop finds the flag cleared.
PollExit ==
    /\ poll.pc = "idle"
    /\ ~running
    /\ poll' = [poll EXCEPT !.pc = "exited"]
    /\ UNCHANGED <<dbVars, queue, monitored, now, mono, outreachVars, dm, thread,
                   jan, posNotes, intakeVars, discVars, lifeVars, utilVars>>

\* _janitor_loop: after its sleep the head of the loop finds the flag cleared.
JanitorExit ==
    /\ jan.pc = "idle"
    /\ ~running
    /\ jan' = [jan EXCEPT !.pc = "exited"]
    /\ UNCHANGED <<dbVars, queue, monitored, now, mono, outreachVars, dm, poll,
                   thread, posNotes, intakeVars, discVars, lifeVars, utilVars>>

\* _summary_loop, one iteration and the head of the loop: the sleep until
\* 21:00 ends, the summary is sent (or the failure logged), and with the
\* flag set the next sleep begins.
SummaryPass ==
    /\ loop.summary = "sleep"
    /\ loop' = [loop EXCEPT !.summary = IF running THEN "sleep" ELSE "exited"]
    /\ running' = running
    /\ UNCHANGED <<dbVars, queue, monitored, now, mono, outreachVars, replyVars,
                   intakeVars, discVars, utilVars>>

DiscoverySleepIgnoresFlag ==
    /\ loop.discovery \in {"first_sleep", "sleep"}
    /\ loop' = [loop EXCEPT !.discovery = "cycle"]
    /\ UNCHANGED <<dbVars, queue, monitored, now, mono, outreachVars, replyVars,
                   intakeVars, discVars, running, utilVars>>

\* _discovery_loop, lines 440 and 448 with the head of the loop: a sleep of
\* one discovery interval ends; with the flag set a cycle begins.
DiscoverySleepEnds ==
    /\ loop.discovery \in {"first_sleep", "sleep"}
    /\ loop' = [loop EXCEPT !.discovery = IF running THEN "cycle" ELSE "exited"]
    /\ UNCHANGED <<dbVars, queue, monitored, now, mono, outreachVars, replyVars,
                   intakeVars, discVars, running, utilVars>>

\* _discovery_loop, lines 443-448: run_cycle has returned or raised, no
\* registration is in progress, and the loop sleeps.
DiscoveryCycleEnds ==
    /\ loop.discovery = "cycle"
    /\ disc.pc = "idle"
    /\ loop' = [loop EXCEPT !.discovery = "sleep"]
    /\ UNCHANGED <<dbVars, queue, monitored, now, mono, outreachVars, replyVars,
                   intakeVars, discVars, running, utilVars>>

(***************************************************************************)
(* Orchestrator.run: a loop task that fails                                *)
(***************************************************************************)
\* How a task can have ended: its loop returned, it raised, or the
\* CancelledError requested by run() was thrown into it.
Ended == {"exited", "failed", "cancelled"}

\* _outreach_loop, lines 240, 248 and 257: a repository call outside any try
\* block raises, and the exception ends the task.  (Every other loop body
\* is wrapped in `except Exception`.)
OutreachRaises ==
    /\ \/ out.pc = "cycle" /\ running
       \/ out.pc = "check" /\ out.idx <= Len(out.batch)
    /\ ~IsOutreachPaused(now)
    /\ pausedUntil' = PausedUntilAfterCheck(now)
    /\ out' = [out EXCEPT !.pc = "failed"]
    /\ UNCHANGED <<dbVars, queue, monitored, now, mono, lastSend, sender,
                   floodNotes, replyVars, intakeVars, discVars, lifeVars, utilVars>>

RunRaisesWithoutCancel ==
    /\ loop.run = "gather"
    /\ out.pc = "failed"
    /\ loop' = [loop EXCEPT !.run = "raised"]
    /\ UNCHANGED <<dbVars, queue, monitored, now, mono, outreachVars, replyVars,
                   intakeVars, discVars, running, utilVars>>

\* run(), lines 77-81: gather has raised the task's exception; every task
\* gets cancel() and the exception is raised again.
RunRaises ==
    /\ loop.run = "gather"
    /\ out.pc = "failed"
    /\ loop' = [loop EXCEPT !.run = "raised", !.cancel = TRUE]
    /\ UNCHANGED <<dbVars, queue, monitored, now, mono, outreachVars, replyVars,
                   intakeVars, discVars, running, utilVars>>

\* Task.cancel() takes effect: the next time the event loop runs a task that
\* was cancelled, CancelledError is thrown in at the await it is suspended
\* in; no loop catches it (`except Exception` does not), so the task ends.
CancelDelivered ==
    /\ loop.cancel
    /\ \/ /\ out.pc \notin Ended
          /\ out' = [out EXCEPT !.pc = "cancelled"]
          /\ UNCHANGED <<poll, jan, loop>>
       \/ /\ poll.pc \notin Ended
          /\ poll' = [poll EXCEPT !.pc = "cancelled"]
          /\ UNCHANGED <<out, jan, loop>>
       \/ /\ jan.pc \notin Ended
          /\ jan' = [jan EXCEPT !.pc = "cancelled"]
          /\ UNCHANGED <<out, poll, loop>>
       \/ /\ \E t \in {"processor", "summary", "discovery"} :
               /\ loop[t] \notin Ended \cup {"none"}
               /\ loop' = [loop EXCEPT ![t] = "cancelled"]
          /\ UNCHANGED <<out, poll, jan>>
    /\ UNCHANGED <<dbVars, queue, monitored, now, mono, pausedUntil, lastSend, sender,
                   floodNotes, dm, thread, posNotes, intakeVars, discVars, running, utilVars>>

(***************************************************************************)
(* utils/retry.py: retry_on_flood                                          *)
(***************************************************************************)
MaxRetries == 3        \* largest max_retries tried (the Sender uses 3)
MaxWarmupDays == 23    \* whole days since the limiter's start that are tried
MaxTextLen == 3        \* characters of a text handed to _compute_text_hash
MaxLimiterAge == 43    \* half days the RateLimiter has existed when the clock is 0
MaxArrivals == 1       \* answers arriving while every loop runs (SpecPipeline)

\* Warmup schedules a limiter can be configured with: the model's, the
\* defaults of get_current_daily_limit, and one that is not increasing.
WarmupSchedules ==
    {ConfiguredWarmup,
     [week_1 |-> 2, week_2 |-> 5, week_3 |-> 8, week_4_plus |-> 12],
     [week_1 |-> 9, week_2 |-> 9, week_3 |-> 1, week_4_plus |-> 7]}

\* get_current_daily_limit is asked, some whole days and some seconds after
\* the limiter's start.
ReadDailyLimit ==
    /\ \E warmup \in WarmupSchedules, start \in {0, 5 * HourSeconds},
          d \in 0..MaxWarmupDays, secs \in {0, DaySeconds - 1} :
         LET t == start + d * DaySeconds + secs IN
         calc' = [fn |-> "daily_limit", warmup |-> warmup, started_at |-> start,
                  t |-> t, result |-> DailyLimit(warmup, start, t)]
    /\ UNCHANGED <<dbVars, queue, monitored, now, mono, outreachVars, replyVars,
                   intakeVars, discVars, lifeVars, retry>>

\* The seconds a FloodWaitError can carry, and the values random.uniform(1,
\* 10) is taken at (its two ends).
FloodSeconds == {1, 5}
Jitters == {1, 10}

\* What one invocation of the wrapped function does: it returns (a value or
\* None), or raises FloodWaitError, PeerFloodError or some other exception.
CallOutcomes ==
    {[kind |-> k, seconds |-> 0] : k \in {"ok", "peer_flood", "error"}}
        \cup {[kind |-> "flood", seconds |-> sec] : sec \in FloodSeconds}

\* No wrapped call is being made.
NoCall == [pc |-> "none", n |-> 0, attempt |-> 0, history |-> <<>>, wait |-> 0,
           result |-> 0, error |-> "none"]

NoCalc == [fn |-> "none"]

UtilIdle ==
    /\ retry = NoCall
    /\ calc = NoCalc

LastAttemptNever(attempt, n) == attempt > n

\* Line 32
LastAttempt(attempt, n) == attempt = n

\* Lines 26-27: the sleep after a flood signal.
FloodWait(seconds, jitter) == seconds + jitter

\* Lines 22-33 and 35: the head of the for loop and one invocation of the
\* wrapped function.  The value an invocation returns is identified with
\* the number of that invocation; None (0) is what line 35 would return.
RetryCall ==
    /\ retry.pc = "call"
    /\ IF retry.attempt > retry.n
       THEN retry' = [retry EXCEPT !.pc = "returned", !.result = 0]
       ELSE \E o \in CallOutcomes, jitter \in Jitters :
              LET h == Append(retry.history, [kind |-> o.kind, seconds |-> o.seconds,
                                              at |-> mono])
              IN
              IF o.kind = "ok"
              THEN retry' = [retry EXCEPT !.pc = "returned", !.history = h,
                                          !.result = Len(h)]
              ELSE IF o.kind = "flood"
              THEN IF LastAttempt(retry.attempt, retry.n)
                   THEN retry' = [retry EXCEPT !.pc = "raised", !.history = h,
                                               !.error = "flood"]
                   ELSE retry' = [retry EXCEPT !.pc = "sleep", !.history = h,
                                               !.wait = FloodWait(o.seconds, jitter)]
              ELSE retry' = [retry EXCEPT !.pc = "raised", !.history = h,
                                          !.error = o.kind]
    /\ UNCHANGED <<dbVars, queue, monitored, now, mono, outreachVars, replyVars,
                   intakeVars, discVars, lifeVars, calc>>

\* Line 34: the sleep ends and the for loop goes to its next attempt.
RetrySleep ==
    /\ retry.pc = "sleep"
    /\ mono' = mono + retry.wait
    /\ retry' = [retry EXCEPT !.pc = "call", !.attempt = @ + 1, !.wait = 0]
    /\ UNCHANGED <<dbVars, queue, monitored, now, outreachVars, replyVars,
                   intakeVars, discVars, lifeVars, calc>>

(***************************************************************************)
(* Initial states                                                          *)
(***************************************************************************)
\* The text of the i-th post: distinct posts, distinct hashes.
PostText(i) == <<"a">> \o [j \in 1..i |-> "b"]

\* A channel row as main() seeds it: active, no discovery provenance.
SeedChannel(id, tid) ==
    [id |-> id, telegram_id |-> tid, is_active |-> TRUE, discovered_at |-> NoTime]

\* Orchestrator.__init__ and RateLimiter.__init__: not paused, _last_send = 0;
\* nothing has been sent.
OutreachIdle ==
    /\ out = OutTask("cycle", <<>>, 0, NoBudget, GenerationFailed)
    /\ pausedUntil = NoTime
    /\ lastSend = 0
    /\ sender = [attempts |-> 0, mono |-> NoTime, floodAt |-> NoTime]
    /\ floodNotes = 0

\* No private-message handler is running, the reply poller and the janitor
\* are between two passes, no positive reply has been forwarded.
ReplyIdle ==
    /\ dm = DmIdle
    /\ poll = PollIdle
    /\ thread = [i \in DOMAIN leads |-> {}]
    /\ jan = JanIdle
    /\ posNotes = [i \in DOMAIN leads |-> 0]

IntakeIdle ==
    /\ queue = <<>>
    /\ verdicts = <<>>
    /\ lastOutcome = "none"
    /\ lastScore = NoScore
    /\ delivered = 0

\* The intake path from an empty database with two seeded channels.
InitIntake ==
    /\ channels = <<SeedChannel(1, 101), SeedChannel(2, 102)>>
    /\ messages = <<>>
    /\ leads = <<>>
    /\ replies = <<>>
    /\ budget = <<>>
    /\ monitored = KnownChats
    /\ now = 0
    /\ mono = 0
    /\ IntakeIdle
    /\ DiscIdle
    /\ LifeIdle
    /\ UtilIdle
    /\ OutreachIdle
    /\ ReplyIdle

NextIntake == QueuePut \/ ProcessMessage

SpecIntake == InitIntake /\ [][NextIntake]_vars


\* The outreach loop starts over a database in which the intake path has
\* left InitLeads leads in `new`, one per message of channel 1; the first
\* message has no sender id.
InitOutreach ==
    /\ channels = <<SeedChannel(1, 101)>>
    /\ messages = [i \in 1..InitLeads |->
                     [id |-> i, telegram_msg_id |-> i, channel_id |-> 1,
                      sender_id |-> IF i = 1 THEN NoId ELSE 7,
                      text |-> PostText(i), text_hash |-> TextHash(PostText(i))]]
    /\ leads = [i \in 1..InitLeads |-> NewLead(i, i, 8)]
    /\ replies = <<>>
    /\ budget = <<>>
    /\ monitored = {101}
    /\ now = 0
    /\ mono = MonoAtStart
    /\ IntakeIdle
    /\ DiscIdle
    /\ LifeIdle
    /\ UtilIdle
    /\ OutreachIdle
    /\ ReplyIdle

NextOutreach ==
    \/ OutreachCycle
    \/ OutreachCheck
    \/ OutreachSend
    \/ OutreachPersist
    \/ OutreachWait
    \/ GetStatus
    \/ Tick

SpecOutreach == InitOutreach /\ [][NextOutreach]_vars

\* The same loop against the monotonic clock: the pacing of the attempts.
NextPace ==
    \/ OutreachCycle
    \/ OutreachCheck
    \/ OutreachSend
    \/ OutreachPersist
    \/ OutreachWait
    \/ TickMono

SpecPace == InitOutreach /\ [][NextPace]_vars

(***************************************************************************)
(* RateLimiter alone: N simulated sends, each followed by wait()           *)
(***************************************************************************)
\* A simulated send starts at the current monotonic time and takes d seconds.
SimulatedSend ==
    /\ out.pc = "sim_send"
    /\ sender.attempts < MaxSends
    /\ \E d \in 0..MaxSendDuration :
         /\ mono' = mono + d
         /\ sender' = [sender EXCEPT !.attempts = @ + 1, !.mono = mono]
    /\ out' = [out EXCEPT !.pc = "sim_wait"]
    /\ UNCHANGED <<dbVars, queue, monitored, now, pausedUntil, lastSend, floodNotes,
                   replyVars, intakeVars, discVars, lifeVars, utilVars>>

\* RateLimiter.wait() after the send; the next send starts when it returns.
RateLimiterWait ==
    /\ out.pc = "sim_wait"
    /\ out' = [out EXCEPT !.pc = "sim_send"]
    /\ \E delay \in MinDelay..MaxDelay :
         /\ mono' = WaitReturnsAt(mono, lastSend, delay)
         /\ lastSend' = mono'
    /\ UNCHANGED <<dbVars, queue, monitored, now, pausedUntil, sender, floodNotes,
                   replyVars, intakeVars, discVars, lifeVars, utilVars>>

\* A RateLimiter as constructed (_last_send = 0), on a host just booted or up
\* for a while.
InitRate ==
    /\ channels = <<>> /\ messages = <<>> /\ leads = <<>> /\ replies = <<>>
    /\ budget = <<>>
    /\ monitored = {}
    /\ now = 0
    /\ mono \in {0, MonoAtStart}
    /\ IntakeIdle
    /\ DiscIdle
    /\ LifeIdle
    /\ UtilIdle
    /\ ReplyIdle
    /\ out = OutTask("sim_send", <<>>, 0, NoBudget, GenerationFailed)
    /\ pausedUntil = NoTime
    /\ lastSend = 0
    /\ sender = [attempts |-> 0, mono |-> NoTime, floodAt |-> NoTime]
    /\ floodNotes = 0

NextRate == SimulatedSend \/ RateLimiterWait

SpecRate == InitRate /\ [][NextRate]_vars

(***************************************************************************)
(* Claims about the intake path (SpecIntake)                               *)
(***************************************************************************)
LeadHash(l) == messages[l.message_id].text_hash

AtMostOneLeadPerHash ==
    \A i, j \in DOMAIN leads : i # j => LeadHash(leads[i]) # LeadHash(leads[j])

\* Message rows i < j (i was processed first) of two distinct channels with
\* the same normalized text, the first accepted by the classifier.
SameTextTwoChannels(i, j) ==
    /\ i < j
    /\ messages[i].text_hash = messages[j].text_hash
    /\ messages[i].channel_id # messages[j].channel_id
    /\ verdicts[i] = "lead"

\* C4: at most one Lead exists per normalized-text hash; when the same
\* normalized text was ingested from two distinct channels and the classifier
\* accepted it, exactly one Lead has that hash, it is attached to the Message
\* processed first, and the later Message was dropped as a duplicate text.
C4_CrossChannelDedup ==
    /\ AtMostOneLeadPerHash
    /\ \A i, j \in DOMAIN messages :
         SameTextTwoChannels(i, j) =>
           /\ verdicts[j] = "dup_hash"
           /\ \E l \in Range(leads) :
                /\ l.message_id = i
                /\ \A k \in Range(leads) :
                     LeadHash(k) = messages[i].text_hash => k = l

\* Two spellings of one text from two channels, both processed, one Lead.
C4_Witness ==
    \E i, j \in DOMAIN messages :
        /\ SameTextTwoChannels(i, j)
        /\ messages[i].text # messages[j].text
        /\ Len(leads) = 1

UniqueMessageKeys ==
    \A i, j \in DOMAIN messages :
        i # j => \/ messages[i].channel_id # messages[j].channel_id
                 \/ messages[i].telegram_msg_id # messages[j].telegram_msg_id

\* The queued message's (channel, platform message id) is already persisted.
Redelivered(incoming) ==
    \E c \in GetChannelByTelegramId(incoming.chat_id) :
        \E r \in Range(messages) :
            r.channel_id = c.id /\ r.telegram_msg_id = incoming.telegram_msg_id

\* C5: no two Messages share a (channel, platform message id) pair, and the
\* processing of a re-delivered pair leaves the Messages, the Leads and the
\* Replies exactly as they were.
C5_IdempotentReingestion ==
    /\ []UniqueMessageKeys
    /\ [][(queue # <<>> /\ queue' = Tail(queue) /\ Redelivered(Head(queue)))
            => (messages' = messages /\ leads' = leads /\ replies' = replies)]_vars

\* A re-delivery has just been processed, with a Lead already in place.
C5_Witness == lastOutcome = "duplicate" /\ leads # <<>> /\ delivered > Len(messages)

\* A lead as _send_outreach left it at time t.
ContactedLead(id, msgId, t) ==
    [NewLead(id, msgId, 8) EXCEPT !.status = "contacted",
                                  !.outreach_msg_id = ThreadMsgId(id),
                                  !.dm_msg_id = DmMsgId(id),
                                  !.contacted_at = t]

\* When lead i of the initial database was contacted: one lead a day, the
\* last one twelve hours before the orchestrator starts, or `down` days
\* earlier if the program was not running since.
ContactedAt(i, down) ==
    0 - TickSeconds - (ContactedLeads - i) * DaySeconds - down * DaySeconds

\* The orchestrator starts over the database of an earlier run: every lead
\* contacted, each on its own day within that day's budget, the last one
\* still within the TTL or (after a day of downtime) past it; channel 2 was
\* discovered eight days ago and has produced no lead.
InitReplies ==
    /\ channels = <<SeedChannel(1, 101),
                    [SeedChannel(2, 102) EXCEPT
                        !.discovered_at = 0 - (DeadChannelAgeDays + 1) * DaySeconds]>>
    /\ messages = [i \in 1..ContactedLeads |->
                     [id |-> i, telegram_msg_id |-> i, channel_id |-> 1,
                      sender_id |-> 6 + i,
                      text |-> PostText(i), text_hash |-> TextHash(PostText(i))]]
    /\ \E down \in {0, 1} :
         /\ leads = [i \in 1..ContactedLeads |->
                       ContactedLead(i, i, ContactedAt(i, down))]
         /\ budget = [d \in {Today(ContactedAt(i, down)) : i \in 1..ContactedLeads} |->
                        [date |-> d, sends_used |-> 1, max_sends |-> WarmupWeek1]]
    /\ replies = <<>>
    /\ monitored = KnownChats
    /\ now = 0
    /\ mono = MonoAtStart
    /\ IntakeIdle
    /\ DiscIdle
    /\ LifeIdle
    /\ UtilIdle
    /\ OutreachIdle
    /\ ReplyIdle

NextReplies ==
    \/ ThreadReplyPosted
    \/ DmReceive
    \/ DmReply
    \/ PollStart
    \/ PollThread
    \/ PollCheck
    \/ PollReply
    \/ ForwardRead
    \/ ForwardWrite
    \/ JanitorSweep
    \/ JanitorMark
    \/ JanitorDead
    \/ JanitorDeactivate
    \/ Tick

SpecReplies == InitReplies /\ [][NextReplies]_vars

\* Reply handling alone: the listener, the poller and its forwarding pass.
NextForward ==
    \/ ThreadReplyPosted
    \/ DmReceive
    \/ DmReply
    \/ PollStart
    \/ PollThread
    \/ PollCheck
    \/ PollReply
    \/ ForwardRead
    \/ ForwardWrite

SpecForward == InitReplies /\ [][NextForward]_vars

\* The event loop resumes every coroutine that is ready: each step of a
\* running handler, of the poller and of its forwarding pass is eventually
\* taken, and the poller's sleep ends.  Messages arrive when users send them.
FairForward ==
    /\ WF_vars(DmReply)
    /\ WF_vars(PollStart)
    /\ WF_vars(PollThread)
    /\ WF_vars(PollCheck)
    /\ WF_vars(PollReply)
    /\ WF_vars(ForwardRead)
    /\ WF_vars(ForwardWrite)

SpecForwardFair == SpecForward /\ FairForward

(***************************************************************************)
(* One message from intake to forwarding                                   *)
(***************************************************************************)
\* The collector has queued one post of the seeded channel, written by
\* user 7; the database is empty and every task is at its start.
InitLifecycle ==
    /\ channels = <<SeedChannel(1, 101)>>
    /\ messages = <<>>
    /\ leads = <<>>
    /\ replies = <<>>
    /\ budget = <<>>
    /\ monitored = {101}
    /\ now = 0
    /\ mono = MonoAtStart
    /\ queue = <<[telegram_msg_id |-> 1, chat_id |-> 101, sender_id |-> 7,
                  text |-> PostText(1)]>>
    /\ verdicts = <<>>
    /\ lastOutcome = "none"
    /\ lastScore = NoScore
    /\ delivered = 1
    /\ OutreachIdle
    /\ dm = DmIdle
    /\ poll = PollIdle
    /\ jan = JanIdle
    /\ thread = <<{}>>
    /\ posNotes = <<0>>
    /\ DiscIdle
    /\ LifeIdle
    /\ UtilIdle

\* The processor, the outreach loop, the listener and the poller, within one
\* day and within the TTL of the lead.
NextLifecycle ==
    \/ ProcessMessage
    \/ OutreachCycle
    \/ OutreachCheck
    \/ OutreachSend
    \/ OutreachPersist
    \/ OutreachWait
    \/ ThreadReplyPosted
    \/ DmReceive
    \/ DmReply
    \/ PollStart
    \/ PollThread
    \/ PollCheck
    \/ PollReply
    \/ ForwardRead
    \/ ForwardWrite

\* The forwarding pass delivers its notification and writes `forwarded`.
ForwardDelivered == ForwardWrite /\ poll'.pc = "fwd_read"

\* Every ready coroutine is resumed, and a notification that keeps being
\* attempted is delivered at some attempt.
FairLifecycle ==
    /\ WF_vars(ProcessMessage)
    /\ WF_vars(OutreachCycle) /\ WF_vars(OutreachCheck) /\ WF_vars(OutreachSend)
    /\ WF_vars(OutreachPersist) /\ WF_vars(OutreachWait)
    /\ FairForward
    /\ SF_vars(ForwardDelivered)

SpecLifecycle == InitLifecycle /\ [][NextLifecycle]_vars /\ FairLifecycle

\* The wall clock passes the whole span of a run in one step, which is
\* longer than the no-reply TTL.
TtlElapses ==
    /\ now < MaxTicks * TickSeconds
    /\ now' = now + MaxTicks * TickSeconds
    /\ UNCHANGED <<dbVars, queue, monitored, mono, outreachVars, replyVars,
                   intakeVars, discVars, lifeVars, utilVars>>

\* The answers that have arrived: the messages posted in the threads and
\* the private messages the listener has taken up.
Arrivals ==
    Cardinality(UNION {thread[i] : i \in DOMAIN thread})
        + Cardinality({k \in DOMAIN replies : replies[k].telegram_msg_id = DmReplyMsgId})
        + (IF dm.pc = "sentiment" THEN 1 ELSE 0)

\* An answer arrives in a thread or privately, while fewer than
\* MaxArrivals have.
ThreadReplyArrives == Arrivals < MaxArrivals /\ ThreadReplyPosted
DmArrives == Arrivals < MaxArrivals /\ DmReceive

\* Every task that writes a lead: the processor, the outreach loop, the
\* listener, the poller with its forwarding pass, and the janitor, with the
\* wall clock.
NextPipeline ==
    \/ ProcessMessage
    \/ OutreachCycle
    \/ OutreachCheck
    \/ OutreachSend
    \/ OutreachPersist
    \/ OutreachWait
    \/ ThreadReplyArrives
    \/ DmArrives
    \/ DmReply
    \/ PollStart
    \/ PollThread
    \/ PollCheck
    \/ PollReply
    \/ ForwardRead
    \/ ForwardWrite
    \/ JanitorSweep
    \/ JanitorMark
    \/ JanitorDead
    \/ TtlElapses

SpecPipeline == InitLifecycle /\ [][NextPipeline]_vars

\* Reply handling when nothing is assumed about the poller's timer: running
\* coroutines are resumed and notifications get delivered, but the sleep of
\* _reply_poller need not end.  What a private reply brings about by itself.
FairPush ==
    /\ WF_vars(DmReply)
    /\ WF_vars(PollThread)
    /\ WF_vars(PollCheck)
    /\ WF_vars(PollReply)
    /\ WF_vars(ForwardRead)
    /\ WF_vars(ForwardWrite)
    /\ SF_vars(ForwardDelivered)

SpecPush == SpecForward /\ FairPush

\* Discovery enabled: DiscoveryService.init has loaded the ids of the active
\* channels; one seeded channel is active, a second row was deactivated
\* earlier.  The run starts below capacity.
InitDiscovery ==
    /\ channels = <<SeedChannel(1, 101),
                    [SeedChannel(2, 102) EXCEPT !.is_active = FALSE]>>
    /\ messages = <<>>
    /\ leads = <<>>
    /\ replies = <<>>
    /\ budget = <<>>
    /\ monitored = {101}
    /\ now = 0
    /\ mono = MonoAtStart
    /\ OutreachIdle
    /\ ReplyIdle
    /\ IntakeIdle
    /\ knownIds = ActiveTelegramIds(channels)
    /\ rejectedIds = {}
    /\ disc = DiscTask("idle", NoId, "none", 0, NoValidation, "none")
    /\ running = TRUE
    /\ loop = [LoopsAtStart EXCEPT !.discovery = "cycle"]
    /\ UtilIdle

NextDiscovery == TryRegister \/ Validate \/ Persist

SpecDiscovery == InitDiscovery /\ [][NextDiscovery]_vars

\* run() has started the six loops (discovery is enabled) over a database
\* with InitLeads leads in `new` and one message waiting in the queue.
InitShutdown ==
    /\ channels = <<SeedChannel(1, 101)>>
    /\ messages = [i \in 1..InitLeads |->
                     [id |-> i, telegram_msg_id |-> i, channel_id |-> 1,
                      sender_id |-> 7,
                      text |-> PostText(i), text_hash |-> TextHash(PostText(i))]]
    /\ leads = [i \in 1..InitLeads |-> NewLead(i, i, 8)]
    /\ replies = <<>>
    /\ budget = <<>>
    /\ monitored = {101}
    /\ now = 0
    /\ mono = MonoAtStart
    /\ queue = <<[telegram_msg_id |-> 1, chat_id |-> 101, sender_id |-> 7,
                  text |-> PostText(1)]>>
    /\ verdicts = <<>>
    /\ lastOutcome = "none"
    /\ lastScore = NoScore
    /\ delivered = 1
    /\ OutreachIdle
    /\ ReplyIdle
    /\ knownIds = ActiveTelegramIds(channels)
    /\ rejectedIds = {}
    /\ disc = DiscTask("idle", NoId, "none", 0, NoValidation, "none")
    /\ running = TRUE
    /\ loop = [LoopsAtStart EXCEPT !.discovery = "first_sleep"]
    /\ UtilIdle

\* The head of the outreach loop, taken only when the attempts still allowed
\* (MaxAttempts) suffice for the whole batch it fetches.
BoundedOutreachCycle ==
    /\ sender.attempts + Len(GetLeadsByStatus("new")) <= MaxAttempts
    /\ OutreachCycle

\* The six loops and the signal handler; no reply arrives, no lead goes
\* stale and no new channel is found while the engine shuts down.
NextShutdown ==
    \/ Stop
    \/ ProcessMessage
    \/ ProcessorTimeout
    \/ BoundedOutreachCycle
    \/ OutreachCheck
    \/ OutreachSend
    \/ OutreachPersist
    \/ OutreachWait
    \/ OutreachExit
    \/ PollStart
    \/ PollThread
    \/ PollCheck
    \/ ForwardRead
    \/ PollExit
    \/ JanitorSweep
    \/ JanitorDead
    \/ JanitorExit
    \/ SummaryPass
    \/ DiscoverySleepEnds
    \/ DiscoveryCycleEnds

\* The outreach loop alone and the signal handler.
NextStop ==
    \/ Stop
    \/ OutreachCycle
    \/ OutreachCheck
    \/ OutreachSend
    \/ OutreachPersist
    \/ OutreachWait
    \/ OutreachExit

SpecStop == InitOutreach /\ [][NextStop]_vars

\* The steps of each loop task.  A task is at one place at a time, so at
\* most one of its steps is enabled.
ProcessorStep == ProcessorTimeout \/ ProcessMessage
OutreachStep ==
    \/ BoundedOutreachCycle \/ OutreachCheck \/ OutreachSend
    \/ OutreachPersist \/ OutreachWait \/ OutreachExit
PollerStep == PollStart \/ PollThread \/ PollCheck \/ ForwardRead \/ PollExit
JanitorStep == JanitorSweep \/ JanitorDead \/ JanitorExit
DiscoveryStep == DiscoverySleepEnds \/ DiscoveryCycleEnds

\* A step of any of the loop tasks.
LoopStep ==
    \/ SummaryPass \/ DiscoveryStep \/ JanitorStep
    \/ PollerStep \/ OutreachStep \/ ProcessorStep

\* The event loop keeps running its tasks, and every collaborator call and
\* sleep in flight completes: as long as some loop has a step to take, a step
\* of some loop is taken.  Nothing is assumed about which loop goes first,
\* and stop() is under no obligation to be called.
FairShutdown == WF_vars(LoopStep)

SpecShutdown == InitShutdown /\ [][NextShutdown]_vars /\ FairShutdown

\* The six loops, one of which may fail.  A task whose cancel() was called
\* takes no step of its own any more: the only thing the event loop does
\* with it is to throw CancelledError into it.
NextCrash ==
    \/ Stop
    \/ ~loop.cancel /\ LoopStep
    \/ ~loop.cancel /\ OutreachRaises
    \/ RunRaises
    \/ CancelDelivered

SpecCrash == InitShutdown /\ [][NextCrash]_vars

\* gather wakes run() up, and the event loop runs the cancelled tasks.
FairCrash == WF_vars(RunRaises) /\ WF_vars(CancelDelivered)

SpecCrashFair == SpecCrash /\ FairCrash

\* A call through retry_on_flood(max_retries = n) begins, for some n >= 1.
InitRetry ==
    /\ channels = <<>>
    /\ messages = <<>>
    /\ leads = <<>>
    /\ replies = <<>>
    /\ budget = <<>>
    /\ monitored = {}
    /\ now = 0
    /\ mono = MonoAtStart
    /\ IntakeIdle
    /\ DiscIdle
    /\ LifeIdle
    /\ OutreachIdle
    /\ ReplyIdle
    /\ calc = NoCalc
    /\ \E n \in 1..MaxRetries :
         retry = [NoCall EXCEPT !.pc = "call", !.n = n, !.attempt = 1]

NextRetry == RetryCall \/ RetrySleep

SpecRetry == InitRetry /\ [][NextRetry]_vars

\* Nothing runs; only pure functions are applied.
InitCalc ==
    /\ channels = <<>>
    /\ messages = <<>>
    /\ leads = <<>>
    /\ replies = <<>>
    /\ budget = <<>>
    /\ monitored = {}
    /\ now = 0
    /\ mono = MonoAtStart
    /\ IntakeIdle
    /\ DiscIdle
    /\ LifeIdle
    /\ UtilIdle
    /\ OutreachIdle
    /\ ReplyIdle

SpecWarmup == InitCalc /\ [][ReadDailyLimit]_vars

(***************************************************************************)
(* Reply handling with the outcomes of the sentiment request              *)
(***************************************************************************)
\* What the request behind analyze_sentiment ends in: a JSON object with one
\* of the sentiments, a JSON object without the key, a body that is not
\* JSON, or a failure of the HTTP exchange (no connection, a timeout, an
\* error status from the fallback model too).
AnalysisOutcomes == Sentiments \cup {"no_key", "invalid_json", "transport_error"}

\* analyze_sentiment, i.e. OpenRouterClient.chat_json: chat catches only
\* httpx.HTTPStatusError and answers it with _fallback, whose own errors
\* propagate; json.JSONDecodeError alone becomes None.
AnalyzeSentiment(outcome) ==
    IF outcome = "transport_error" THEN "raise"
    ELSE IF outcome = "invalid_json" THEN "null"
    ELSE outcome

\* _process_reply, lines 93-95.
StoredSentiment(result) ==
    IF result \in {"null", "no_key"} THEN "unclear" ELSE result

\* _process_reply of the listener's handler with analyze_sentiment's
\* outcome: an exception leaves the handler before insert_reply.
DmAnalysed ==
    /\ dm.pc = "sentiment"
    /\ \E outcome \in AnalysisOutcomes :
         LET result == AnalyzeSentiment(outcome) IN
         /\ calc' = [fn |-> "analyze_sentiment", result |-> result,
                     lead |-> dm.lead.id]
         /\ IF result = "raise"
            THEN UNCHANGED <<replies, leads>>
            ELSE /\ replies' = RepliesAfterInsert(dm.lead, dm.msg_id,
                                                  StoredSentiment(result))
                 /\ leads' = UpdateLead(RepliedCopy(dm.lead))
    /\ dm' = DmIdle
    /\ UNCHANGED <<channels, messages, budget, queue, monitored, now, mono,
                   outreachVars, poll, thread, jan, posNotes, intakeVars, discVars,
                   lifeVars, retry>>

\* _process_reply of the poller with analyze_sentiment's outcome: an
\* exception ends the loop over this lead's thread in the except clause of
\* poll_thread_replies, which goes on with the next lead.
PollAnalysed ==
    /\ poll.pc = "sentiment"
    /\ LET lead == poll.batch[poll.idx] IN
       \E outcome \in AnalysisOutcomes :
         LET result == AnalyzeSentiment(outcome) IN
         /\ calc' = [fn |-> "analyze_sentiment", result |-> result,
                     lead |-> lead.id]
         /\ IF result = "raise"
            THEN /\ UNCHANGED <<replies, leads>>
                 /\ poll' = [poll EXCEPT !.pc = "thread", !.idx = @ + 1,
                                         !.msgs = <<>>]
            ELSE /\ replies' = RepliesAfterInsert(lead, Head(poll.msgs),
                                                  StoredSentiment(result))
                 /\ leads' = UpdateLead(RepliedCopy(lead))
                 /\ poll' = [poll EXCEPT !.pc = "msgs", !.msgs = Tail(@),
                                         !.batch[poll.idx] = RepliedCopy(lead)]
    /\ UNCHANGED <<channels, messages, budget, queue, monitored, now, mono,
                   outreachVars, dm, thread, jan, posNotes, intakeVars, discVars,
                   lifeVars, retry>>

NextSentiment ==
    \/ ThreadReplyPosted
    \/ DmReceive
    \/ DmAnalysed
    \/ PollStart
    \/ PollThread
    \/ PollCheck
    \/ PollAnalysed
    \/ ForwardRead
    \/ ForwardWrite

SpecSentiment == InitReplies /\ [][NextSentiment]_vars

(***************************************************************************)
(* The dead-channel sweep next to the intake path                          *)
(***************************************************************************)
\* A channel row as discovery left it more than the minimum age ago.
OldChannel(id, tid) ==
    [SeedChannel(id, tid) EXCEPT
        !.discovered_at = 0 - (DeadChannelAgeDays + 1) * DaySeconds]

\* The seeded channel and two channels discovered eight days ago, all
\* monitored, none with a message yet.
InitDead ==
    /\ channels = <<SeedChannel(1, 101), OldChannel(2, 102), OldChannel(3, 103)>>
    /\ messages = <<>>
    /\ leads = <<>>
    /\ replies = <<>>
    /\ budget = <<>>
    /\ monitored = {101, 102, 103}
    /\ now = 0
    /\ mono = MonoAtStart
    /\ IntakeIdle
    /\ DiscIdle
    /\ LifeIdle
    /\ UtilIdle
    /\ OutreachIdle
    /\ ReplyIdle

\* The collector, the processor and the janitor.
NextDead ==
    \/ QueuePut
    \/ ProcessMessage
    \/ JanitorSweep
    \/ JanitorDead
    \/ JanitorDeactivate

SpecDead == InitDead /\ [][NextDead]_vars

(***************************************************************************)
(* Discovery next to the janitor's dead-channel sweep                      *)
(***************************************************************************)
\* After a restart: the seeded channel, a channel discovered eight days ago
\* that the janitor deactivated in the previous run, and one discovered
\* eight days ago that is still active.  DiscoveryService.init has loaded
\* the active ids.
InitRegistry ==
    /\ channels = <<SeedChannel(1, 101),
                    [OldChannel(2, 102) EXCEPT !.is_active = FALSE],
                    OldChannel(3, 103)>>
    /\ messages = <<>>
    /\ leads = <<>>
    /\ replies = <<>>
    /\ budget = <<>>
    /\ monitored = {101, 103}
    /\ now = 0
    /\ mono = MonoAtStart
    /\ OutreachIdle
    /\ ReplyIdle
    /\ IntakeIdle
    /\ knownIds = ActiveTelegramIds(channels)
    /\ rejectedIds = {}
    /\ disc = DiscTask("idle", NoId, "none", 0, NoValidation, "none")
    /\ running = TRUE
    /\ loop = [LoopsAtStart EXCEPT !.discovery = "cycle"]
    /\ UtilIdle

NextRegistry ==
    \/ TryRegister
    \/ Validate
    \/ Persist
    \/ JanitorSweep
    \/ JanitorDead
    \/ JanitorDeactivate

SpecRegistry == InitRegistry /\ [][NextRegistry]_vars

(***************************************************************************)
(* _compute_text_hash over bounded texts                                   *)
(***************************************************************************)
\* An upper-case letter, its lower-case form and two whitespace characters.
Chars == {"A", "a", " ", "\t"}

\* Every text of at most MaxTextLen characters.
BoundedTexts == UNION {[1..n -> Chars] : n \in 0..MaxTextLen}

\* Two texts arrive.
InitDedup ==
    /\ channels = <<>>
    /\ messages = <<>>
    /\ leads = <<>>
    /\ replies = <<>>
    /\ budget = <<>>
    /\ monitored = {}
    /\ now = 0
    /\ mono = MonoAtStart
    /\ IntakeIdle
    /\ DiscIdle
    /\ LifeIdle
    /\ retry = NoCall
    /\ \E a, b \in BoundedTexts : calc = [fn |-> "texts", a |-> a, b |-> b]
    /\ OutreachIdle
    /\ ReplyIdle

\* _compute_text_hash is applied to the two texts, and once more to the
\* normalized form of the first.
HashTexts ==
    /\ calc.fn = "texts"
    /\ calc' = [fn |-> "text_hash", a |-> calc.a, b |-> calc.b,
                hash_a |-> TextHash(calc.a), hash_b |-> TextHash(calc.b),
                again |-> TextHash(TextHash(calc.a))]
    /\ UNCHANGED <<dbVars, queue, monitored, now, mono, outreachVars, replyVars,
                   intakeVars, discVars, lifeVars, retry>>

SpecDedup == InitDedup /\ [][HashTexts]_vars

(***************************************************************************)
(* The discovery loop around its cycles                                    *)
(***************************************************************************)
DiscoveryCycleRaisesEndsLoop ==
    /\ loop.discovery = "cycle"
    /\ disc.pc = "idle"
    /\ disc' = [disc EXCEPT !.outcome = "cycle_raised"]
    /\ loop' = [loop EXCEPT !.discovery = "failed"]
    /\ UNCHANGED <<dbVars, queue, monitored, now, mono, outreachVars, replyVars,
                   intakeVars, knownIds, rejectedIds, running, utilVars>>

\* _discovery_loop, lines 443-448: run_cycle raises outside the try blocks
\* of its strategies (between two registrations); the except clause logs
\* the exception and the loop goes to its sleep.
DiscoveryCycleRaises ==
    /\ loop.discovery = "cycle"
    /\ disc.pc = "idle"
    /\ disc' = [disc EXCEPT !.outcome = "cycle_raised"]
    /\ loop' = [loop EXCEPT !.discovery = "sleep"]
    /\ UNCHANGED <<dbVars, queue, monitored, now, mono, outreachVars, replyVars,
                   intakeVars, knownIds, rejectedIds, running, utilVars>>

\* run() has just started the discovery loop: the startup search is over
\* and the loop is in the sleep of line 440.
InitDiscLoop ==
    /\ channels = <<SeedChannel(1, 101),
                    [SeedChannel(2, 102) EXCEPT !.is_active = FALSE]>>
    /\ messages = <<>>
    /\ leads = <<>>
    /\ replies = <<>>
    /\ budget = <<>>
    /\ monitored = {101}
    /\ now = 0
    /\ mono = MonoAtStart
    /\ OutreachIdle
    /\ ReplyIdle
    /\ IntakeIdle
    /\ knownIds = ActiveTelegramIds(channels)
    /\ rejectedIds = {}
    /\ disc = DiscTask("idle", NoId, "none", 0, NoValidation, "none")
    /\ running = TRUE
    /\ loop = [LoopsAtStart EXCEPT !.discovery = "first_sleep"]
    /\ UtilIdle

NextDiscLoop ==
    \/ Stop
    \/ DiscoverySleepEnds
    \/ TryRegister
    \/ Validate
    \/ Persist
    \/ DiscoveryCycleEnds
    \/ DiscoveryCycleRaises

\* The timer of asyncio.sleep fires.
FairDiscLoop == WF_vars(DiscoverySleepEnds)

SpecDiscLoop == InitDiscLoop /\ [][NextDiscLoop]_vars /\ FairDiscLoop

(***************************************************************************)
(* The budget row of an orchestrator that has been running for a while     *)
(***************************************************************************)
\* The orchestrator, and with it its RateLimiter, was constructed some half
\* days before the clock's zero, which is a midnight; today's row does not
\* exist yet and there is no lead.
InitBudgetRow ==
    /\ channels = <<SeedChannel(1, 101)>>
    /\ messages = <<>>
    /\ leads = <<>>
    /\ replies = <<>>
    /\ budget = <<>>
    /\ monitored = {101}
    /\ now = 0
    /\ mono = MonoAtStart
    /\ IntakeIdle
    /\ DiscIdle
    /\ LifeIdle
    /\ retry = NoCall
    /\ \E age \in 0..MaxLimiterAge :
         calc = [fn |-> "limiter", started_at |-> 0 - age * TickSeconds]
    /\ OutreachIdle
    /\ ReplyIdle

\* _outreach_loop, lines 240-242 (and 257-259): get_daily_budget is called
\* with the limiter's current daily limit and returns today's row.
FetchBudgetRow ==
    /\ LET limit == DailyLimit(ConfiguredWarmup, calc.started_at, now) IN
         /\ budget' = BudgetAfterGet(now, limit)
         /\ calc' = [fn |-> "budget_row", started_at |-> calc.started_at,
                     limit |-> limit, row |-> budget'[Today(now)]]
    /\ UNCHANGED <<channels, messages, leads, replies, queue, monitored, now, mono,
                   outreachVars, replyVars, intakeVars, discVars, lifeVars, retry>>

NextBudgetRow == FetchBudgetRow \/ Tick

SpecBudgetRow == InitBudgetRow /\ [][NextBudgetRow]_vars

(***************************************************************************)
(* DiscoveryService.run_cycle: the three strategies in one cycle           *)
(* (discovery_scan_forwards and discovery_scan_descriptions are on).  The  *)
(* frame of the running cycle is kept in calc: the phase, the channels the *)
(* current loop has still to visit, and the channel being scanned.         *)
(***************************************************************************)
CycleFrame(phase, todo, chat) ==
    [fn |-> "run_cycle", phase |-> phase, todo |-> todo, chat |-> chat]

\* The strategy whose source tag _try_register gets in a phase.
PhaseStrategy(phase) ==
    IF phase = "search" THEN "search"
    ELSE IF phase = "forward_scan" THEN "forward"
    ELSE "description"

\* A _try_register call made by the strategy that is running.  The search
\* loop tests the capacity once per keyword, the two scans before every
\* candidate.
CycleRegister ==
    /\ calc.fn = "run_cycle"
    /\ calc.phase \in {"search", "forward_scan", "description_scan"}
    /\ calc.phase # "search" => ~AtCapacity
    /\ TryRegister
    /\ disc'.source = PhaseStrategy(calc.phase)

\* Lines 150-152: search_by_keywords has returned; the forward loop takes
\* its copy of known_ids.
SearchEnds ==
    /\ calc.fn = "run_cycle"
    /\ calc.phase = "search"
    /\ disc.pc = "idle"
    /\ calc' = CycleFrame("forwards", knownIds, NoId)
    /\ UNCHANGED <<dbVars, queue, monitored, now, mono, outreachVars, replyVars,
                   intakeVars, discVars, lifeVars, retry>>

\* Lines 152-153: extract_from_forwards is called for the next channel and
\* starts iter_messages on it.
ForwardInvoke ==
    /\ calc.fn = "run_cycle"
    /\ calc.phase = "forwards"
    /\ \E c \in calc.todo : calc' = CycleFrame("forward_scan", calc.todo \ {c}, c)
    /\ UNCHANGED <<dbVars, queue, monitored, now, mono, outreachVars, replyVars,
                   intakeVars, discVars, lifeVars, retry>>

\* Lines 154-155: extract_from_forwards has returned; at capacity the loop
\* is left.
ForwardReturns ==
    /\ calc.fn = "run_cycle"
    /\ calc.phase = "forward_scan"
    /\ disc.pc = "idle"
    /\ calc' = IF AtCapacity THEN CycleFrame("descriptions", knownIds, NoId)
               ELSE CycleFrame("forwards", calc.todo, NoId)
    /\ UNCHANGED <<dbVars, queue, monitored, now, mono, outreachVars, replyVars,
                   intakeVars, discVars, lifeVars, retry>>

\* The forward loop has visited every channel of its copy.
ForwardsEnd ==
    /\ calc.fn = "run_cycle"
    /\ calc.phase = "forwards"
    /\ calc.todo = {}
    /\ calc' = CycleFrame("descriptions", knownIds, NoId)
    /\ UNCHANGED <<dbVars, queue, monitored, now, mono, outreachVars, replyVars,
                   intakeVars, discVars, lifeVars, retry>>

\* Lines 157-158: extract_from_description is called for the next channel
\* and asks the platform for the entity and the full channel.
DescriptionInvoke ==
    /\ calc.fn = "run_cycle"
    /\ calc.phase = "descriptions"
    /\ \E c \in calc.todo : calc' = CycleFrame("description_scan", calc.todo \ {c}, c)
    /\ UNCHANGED <<dbVars, queue, monitored, now, mono, outreachVars, replyVars,
                   intakeVars, discVars, lifeVars, retry>>

\* Lines 159-160: extract_from_description has returned.
DescriptionReturns ==
    /\ calc.fn = "run_cycle"
    /\ calc.phase = "description_scan"
    /\ disc.pc = "idle"
    /\ calc' = IF AtCapacity THEN CycleFrame("done", {}, NoId)
               ELSE CycleFrame("descriptions", calc.todo, NoId)
    /\ UNCHANGED <<dbVars, queue, monitored, now, mono, outreachVars, replyVars,
                   intakeVars, discVars, lifeVars, retry>>

\* Line 161: the description loop is over and run_cycle returns.
DescriptionsEnd ==
    /\ calc.fn = "run_cycle"
    /\ calc.phase = "descriptions"
    /\ calc.todo = {}
    /\ calc' = CycleFrame("done", {}, NoId)
    /\ UNCHANGED <<dbVars, queue, monitored, now, mono, outreachVars, replyVars,
                   intakeVars, discVars, lifeVars, retry>>

\* run_cycle has just been called: one active channel is known, another
\* has an inactive row.
InitCycle ==
    /\ channels = <<SeedChannel(1, 101),
                    [SeedChannel(2, 102) EXCEPT !.is_active = FALSE]>>
    /\ messages = <<>>
    /\ leads = <<>>
    /\ replies = <<>>
    /\ budget = <<>>
    /\ monitored = {101}
    /\ now = 0
    /\ mono = MonoAtStart
    /\ OutreachIdle
    /\ ReplyIdle
    /\ IntakeIdle
    /\ knownIds = ActiveTelegramIds(channels)
    /\ rejectedIds = {}
    /\ disc = DiscTask("idle", NoId, "none", 0, NoValidation, "none")
    /\ running = TRUE
    /\ loop = [LoopsAtStart EXCEPT !.discovery = "cycle"]
    /\ retry = NoCall
    /\ calc = CycleFrame("search", {}, NoId)

NextCycle ==
    \/ CycleRegister
    \/ Validate
    \/ Persist
    \/ SearchEnds
    \/ ForwardInvoke
    \/ ForwardReturns
    \/ ForwardsEnd
    \/ DescriptionInvoke
    \/ DescriptionReturns
    \/ DescriptionsEnd

SpecCycle == InitCycle /\ [][NextCycle]_vars

(***************************************************************************)
(* Claims about the outreach loop (SpecOutreach, SpecPace)                 *)
(***************************************************************************)
\* The step is a call of _send_outreach ...
AttemptStep == sender'.attempts = sender.attempts + 1
\* ... in which Sender.send_outreach is invoked.
SenderInvokedStep == AttemptStep /\ out'.result.invoked

BudgetWithinMax ==
    \A d \in DOMAIN budget : budget[d].sends_used <= budget[d].max_sends

\* C3: for every date sends_used never exceeds max_sends, and the Sender is
\* invoked only with a DailyBudget in hand that shows sends_used < max_sends
\* and that still is the persisted row of its date.
C3_BudgetEnforcement ==
    /\ []BudgetWithinMax
    /\ [][SenderInvokedStep =>
            /\ out.budget.sends_used < out.budget.max_sends
            /\ out.budget.date \in DOMAIN budget
            /\ budget[out.budget.date] = out.budget]_vars

\* Today's budget is used up while a lead is still waiting in `new`, and the
\* loop is back at its head.
C3_Witness ==
    /\ Today(now) \in DOMAIN budget
    /\ budget[Today(now)].sends_used = budget[Today(now)].max_sends
    /\ budget[Today(now)].max_sends > 0
    /\ \E l \in Range(leads) : l.status = "new"
    /\ out.pc = "cycle"

PauseSeconds == PauseHours * HourSeconds

\* C6: after a send reported the flood signal at time t the Sender is not
\* invoked before t + 24 hours, no send is in preparation while the pause is
\* active, and the operator is notified exactly once for each signal.
C6_PeerFloodPause ==
    /\ [][SenderInvokedStep =>
            (sender.floodAt = NoTime \/ now >= sender.floodAt + PauseSeconds)]_vars
    /\ [](IsOutreachPaused(now) => out.pc \in {"cycle", "check", "wait"})
    /\ [][(out.pc = "persist" /\ out.result.peer_flood /\ out'.pc = "wait")
            <=> floodNotes' = floodNotes + 1]_vars
    /\ [][floodNotes' \in {floodNotes, floodNotes + 1}]_vars

\* Twelve hours into a pause: the loop is at its head, one notification was
\* sent, and leads are still waiting.
C6_Witness ==
    /\ sender.floodAt # NoTime
    /\ now = sender.floodAt + TickSeconds
    /\ IsOutreachPaused(now)
    /\ out.pc = "cycle"
    /\ floodNotes = 1
    /\ \E l \in Range(leads) : l.status = "new"

\* C7: any two consecutive send attempts of the outreach loop are at least
\* min_delay apart, the first pair included.
C7_InterSendSpacing ==
    [][AttemptStep => (sender.mono = NoTime \/ mono - sender.mono >= MinDelay)]_vars

\* C10: a Lead is in `contacted` only if its thread message was delivered; a
\* result with both message ids null leaves the Lead in `new`.
C10_ContactedOnlyIfThreadDelivered ==
    \A l \in Range(leads) : l.status = "contacted" => l.outreach_msg_id # NoId

\* The step starts a simulated send.
SimulatedSendStep == out.pc = "sim_send" /\ out'.pc = "sim_wait"

\* C8: every interval between the starts of two consecutive simulated sends
\* lies in [min_delay, max_delay].
C8_RateSpacing ==
    [][SimulatedSendStep =>
         (sender.mono = NoTime
          \/ (mono - sender.mono >= MinDelay /\ mono - sender.mono <= MaxDelay))]_vars

(***************************************************************************)
(* Claims about the lifecycle of a Lead (SpecReplies)                      *)
(***************************************************************************)
\* The edges of the lifecycle table between persisted statuses.
LifecycleEdges ==
    {<<"new", "contacted">>, <<"contacted", "replied">>, <<"replied", "forwarded">>,
     <<"replied", "negative">>, <<"contacted", "no_reply">>}

TerminalStatuses == {"forwarded", "negative", "no_reply"}

\* C1: every change of a Lead's persisted status follows an edge of the
\* lifecycle table.
C1_LifecycleEdgesOnly ==
    [][\A i \in DOMAIN leads :
         leads'[i].status # leads[i].status
            => <<leads[i].status, leads'[i].status>> \in LifecycleEdges]_vars

\* C2: a Lead whose persisted status is forwarded, negative or no_reply
\* keeps that status in every later step.
C2_TerminalStatusesStay ==
    [][\A i \in DOMAIN leads :
         leads[i].status \in TerminalStatuses
            => leads'[i].status = leads[i].status]_vars

\* The step is the janitor's write of no_reply.
JanitorMarkStep == jan.pc = "mark" /\ jan' # jan

\* C9: the janitor writes no_reply only over a Lead whose persisted status is
\* `contacted` at that moment, which keeps every Lead with a recorded Reply
\* out of no_reply and every recorded replied_at in place.
C9_JanitorOnlyOverContacted ==
    [][JanitorMarkStep =>
         /\ leads[jan.batch[jan.idx].id].status = "contacted"
         /\ leads'[jan.batch[jan.idx].id].replied_at
              = leads[jan.batch[jan.idx].id].replied_at]_vars

(***************************************************************************)
(* Claims about replies and forwarding (SpecForward)                       *)
(***************************************************************************)
\* The forwarding pass reads the replies of its current lead ...
ForwardReadStep == poll.pc = "fwd_read" /\ poll.idx <= Len(poll.batch) /\ poll' # poll
\* ... and writes what it decided.
ForwardWriteStep == poll.pc = "fwd_write" /\ poll' # poll

HasReply(leadId, sentiment) ==
    \E r \in Range(replies) : r.lead_id = leadId /\ r.sentiment = sentiment

UnrecordedThreadReply(i) ==
    \E m \in thread[i] :
        ~\E r \in Range(replies) : r.lead_id = i /\ r.telegram_msg_id = m

\* C12: a reply that arrives in the thread of a Lead that is `replied` is
\* eventually recorded as a further Reply of that Lead, unless the Lead has
\* become terminal before.
C12_RepliesAccumulate ==
    \A i \in 1..ContactedLeads :
        (leads[i].status = "replied" /\ UnrecordedThreadReply(i))
            ~> (~UnrecordedThreadReply(i) \/ leads[i].status \in TerminalStatuses)

(***************************************************************************)
(* Claims about the whole path of a lead (SpecLifecycle)                   *)
(***************************************************************************)
\* The only Reply of lead i is positive.
OnlyPositiveReply(i) ==
    /\ GetRepliesForLead(i) # <<>>
    /\ \A r \in Range(GetRepliesForLead(i)) : r.sentiment = "positive"

ClassifiedStep == queue # <<>> /\ queue' = Tail(queue) /\ lastScore' # NoScore

\* C15: a classification result with a score below the threshold creates no
\* Lead; one with a score at or above it creates exactly one Lead, in `new`,
\* with that score, for the message just stored; no Lead has a score below
\* the threshold.
C15_RelevanceGate ==
    /\ [][ClassifiedStep =>
            IF lastScore' < MinRelevance
            THEN leads' = leads
            ELSE /\ Len(leads') = Len(leads) + 1
                 /\ leads' = Append(leads, leads'[Len(leads')])
                 /\ leads'[Len(leads')].status = "new"
                 /\ leads'[Len(leads')].relevance_score = lastScore'
                 /\ leads'[Len(leads')].message_id = Len(messages')]_vars
    /\ [](\A l \in Range(leads) : l.relevance_score >= MinRelevance)

\* A message was just accepted with a score exactly at the threshold, after
\* another one was turned down for a lower score.
C15_Witness ==
    /\ lastOutcome = "lead"
    /\ lastScore = MinRelevance
    /\ leads[Len(leads)].relevance_score = MinRelevance
    /\ \E k \in DOMAIN verdicts : verdicts[k] = "low"

(***************************************************************************)
(* Claims about channel discovery (SpecDiscovery)                          *)
(***************************************************************************)
\* The step is a call of _try_register.
RegisterAttemptStep == disc'.attempts = disc.attempts + 1

\* C16: known_ids never grows beyond max_channels, and once it has reached
\* max_channels no step persists or subscribes a channel or adds to
\* known_ids; a registration attempt made then ends at once.
C16_DiscoveryCapacity ==
    /\ [](Cardinality(knownIds) <= MaxChannels)
    /\ [][Cardinality(knownIds) >= MaxChannels =>
            /\ UNCHANGED <<channels, monitored, knownIds, queue>>
            /\ (RegisterAttemptStep => disc'.pc = "idle")]_vars

\* At capacity, an attempt for an id that is neither known nor rejected was
\* turned away, whichever strategy made it.
C16_Witness ==
    /\ Cardinality(knownIds) = MaxChannels
    /\ disc.outcome = "capacity"
    /\ disc.id \notin knownIds \cup rejectedIds
    /\ disc.source = "search"

\* The step is a call of _try_register for an id that is registered or
\* rejected already.
SeenAgainStep ==
    RegisterAttemptStep /\ disc'.id \in knownIds \cup rejectedIds

ExplicitTrue(v) == v.samples > 0 /\ ~v.flood /\ v.answer = "true"

\* The step ends _validate_channel.
ValidationStep == disc.pc = "validate" /\ disc'.pc # "validate"

\* The step persists or subscribes a channel.
ChannelPersistedStep == channels' # channels \/ monitored' # monitored

\* C18: a channel is persisted or subscribed only for the candidate whose
\* validation just returned an explicit true; every other validation result
\* (empty sample, flood signal, classifier error, missing or non-boolean
\* answer, false) puts the id in rejected_ids and persists, subscribes and
\* enqueues nothing; a rejected id is never known, subscribed or stored.
C18_ConservativeValidation ==
    /\ [][ChannelPersistedStep =>
            /\ ExplicitTrue(disc.validation)
            /\ disc.id \in knownIds' /\ disc.id \in monitored']_vars
    /\ [][ValidationStep =>
            IF ExplicitTrue(disc'.validation)
            THEN disc'.pc = "persist" /\ rejectedIds' = rejectedIds
            ELSE /\ disc'.pc = "idle"
                 /\ rejectedIds' = rejectedIds \cup {disc.id}
                 /\ UNCHANGED <<channels, monitored, knownIds, queue>>]_vars
    /\ [](\A id \in rejectedIds :
             /\ id \notin knownIds \cup monitored
             /\ GetChannelByTelegramId(id) = {})

\* A candidate with text messages was rejected because the classifier's
\* answer was not a boolean, after another candidate had been registered.
C18_Witness ==
    /\ disc.outcome = "rejected"
    /\ disc.validation = [samples |-> 1, flood |-> FALSE, answer |-> "string_true"]
    /\ disc.id \in rejectedIds
    /\ \E c \in Range(channels) : c.discovered_at # NoTime

(***************************************************************************)
(* Claims about shutdown (SpecStop, SpecShutdown)                          *)
(***************************************************************************)
\* Every loop has returned, so the gather in run() completes and run()
\* returns.
AllExited ==
    /\ loop.processor = "exited"
    /\ out.pc = "exited"
    /\ poll.pc = "exited"
    /\ jan.pc = "exited"
    /\ loop.summary = "exited"
    /\ loop.discovery = "exited"

\* C19: once the running flag is cleared every loop eventually exits, and a
\* loop only ever exits with the flag cleared and from the point where it
\* tests the flag (the head of its while loop, after the operation or sleep
\* before it has completed), never from inside an operation.
C19_ShutdownTerminates ==
    /\ (~running) ~> AllExited
    /\ [][/\ (out'.pc = "exited" /\ out.pc # "exited") => (~running /\ out.pc = "cycle")
          /\ (poll'.pc = "exited" /\ poll.pc # "exited") => (~running /\ poll.pc = "idle")
          /\ (jan'.pc = "exited" /\ jan.pc # "exited") => (~running /\ jan.pc = "idle")
          /\ (loop'.processor = "exited" /\ loop.processor # "exited")
                => (~running /\ loop.processor = "get")
          /\ (loop'.summary = "exited" /\ loop.summary # "exited")
                => (~running /\ loop.summary = "sleep")
          /\ (loop'.discovery = "exited" /\ loop.discovery # "exited")
                => (~running /\ loop.discovery \in {"first_sleep", "sleep"})]_vars

\* run() has returned after a stop that found the outreach loop inside a
\* batch: a lead was contacted and another one is still new.
C19_Witness ==
    /\ AllExited
    /\ ~running
    /\ \E l \in Range(leads) : l.status = "contacted"
    /\ \E l \in Range(leads) : l.status = "new"

\* The for loop of _outreach_loop goes on to a further lead of its batch:
\* pause and budget allow it, and _send_outreach is called next.
SendBegins == out.pc = "check" /\ out.idx > 1 /\ out'.pc = "send"

\* C20: once the running flag is cleared, the outreach loop begins no
\* outreach send for a further lead of its batch.
C20_NoSendAfterStop == [][SendBegins => running]_vars

(***************************************************************************)
(* Claims about a failing loop task (SpecCrashFair)                        *)
(***************************************************************************)
\* No task is left: each has returned, raised or been cancelled.
AllEnded ==
    /\ out.pc \in Ended /\ poll.pc \in Ended /\ jan.pc \in Ended
    /\ \A t \in {"processor", "summary", "discovery"} : loop[t] \in Ended

\* The places of the six loop tasks.
TaskPlaces == <<out.pc, poll.pc, jan.pc, loop.processor, loop.summary, loop.discovery>>

\* C21: run() raises only when a loop task has failed; once run() has
\* raised, the only steps of the tasks are their ending as cancelled
\* (nothing persisted, queued, sent or subscribed changes); and a failed
\* task leads to run() having raised with every task ended.
C21_CrashPolicy ==
    /\ [][(loop.run = "gather" /\ loop'.run = "raised") => out.pc = "failed"]_vars
    /\ [][loop.run = "raised" =>
            /\ UNCHANGED <<dbVars, queue, monitored, sender, pausedUntil, floodNotes,
                           posNotes, verdicts, knownIds, rejectedIds>>
            /\ loop'.run = "raised"
            /\ \A k \in DOMAIN TaskPlaces :
                   TaskPlaces'[k] = TaskPlaces[k] \/ TaskPlaces'[k] = "cancelled"]_vars
    /\ (out.pc = "failed") ~> (loop.run = "raised" /\ AllEnded)

\* run() has raised after the outreach task failed inside a batch, and the
\* five sibling tasks have all ended as cancelled.
C21_Witness ==
    /\ loop.run = "raised"
    /\ out.pc = "failed" /\ out.idx > 1
    /\ poll.pc = "cancelled" /\ jan.pc = "cancelled"
    /\ \A t \in {"processor", "summary", "discovery"} : loop[t] = "cancelled"

(***************************************************************************)
(* Claims about retry_on_flood (SpecRetry)                                 *)
(***************************************************************************)
\* All the invocations before the last one signalled flood-wait.
FloodsBeforeLast(h) == \A k \in 1..(Len(h) - 1) : h[k].kind = "flood"

\* C22: the wrapped function is invoked at most n times; the wrapper
\* returns the result of the first invocation that does not signal
\* flood-wait; it raises the flood-wait error exactly after the n-th
\* consecutive flood signal, and any other error at its first occurrence;
\* and an invocation that follows a flood signal comes no sooner than the
\* signalled seconds after it.
C22_BoundedRetry ==
    LET h == retry.history IN
      (/\ Len(h) <= retry.n
       /\ retry.pc = "returned" =>
             (h # <<>> /\ h[Len(h)].kind = "ok" /\ retry.result = Len(h)
                /\ FloodsBeforeLast(h))
       /\ (retry.pc = "raised" /\ retry.error = "flood") =>
             (Len(h) = retry.n /\ \A k \in DOMAIN h : h[k].kind = "flood")
       /\ (retry.pc = "raised" /\ retry.error # "flood") =>
             (h[Len(h)].kind = retry.error /\ FloodsBeforeLast(h))
       /\ retry.pc \in {"call", "sleep"} => \A k \in DOMAIN h : h[k].kind = "flood"
       /\ \A k \in 1..(Len(h) - 1) : h[k + 1].at - h[k].at >= h[k].seconds)

\* With n = 3 the third invocation returned after two flood signals.
C22_Witness ==
    /\ retry.n = 3
    /\ retry.pc = "returned"
    /\ retry.result = 3
    /\ Len(retry.history) = 3

(***************************************************************************)
(* Claims about the janitor's sweeps (SpecReplies)                          *)
(***************************************************************************)
\* The lead is contacted and its contact lies more than the TTL before t.
StaleAt(l, t) ==
    /\ l.status = "contacted"
    /\ l.contacted_at # NoTime
    /\ t - l.contacted_at > NoReplyTtlHours * HourSeconds

\* C23: the janitor's pass reads exactly the Leads that are contacted and
\* stale, and each of its writes changes only a Lead that is contacted and
\* stale when it is written, to no_reply; a Lead in any other status is left
\* as it is.
C23_StaleSweepExact ==
    /\ [][(jan.pc = "idle" /\ jan'.pc = "mark") =>
            \A i \in DOMAIN leads :
                (leads[i] \in Range(jan'.batch)) <=> StaleAt(leads[i], now)]_vars
    /\ [][JanitorMarkStep =>
            \A i \in DOMAIN leads :
                leads'[i] # leads[i] =>
                    (StaleAt(leads[i], now) /\ leads'[i].status = "no_reply")]_vars

(***************************************************************************)
(* Claims about the warmup tiers (SpecWarmup)                              *)
(***************************************************************************)
\* Whole days between the limiter's start and the time it was asked.
DaysElapsed == (calc.t - calc.started_at) \div DaySeconds

\* C24: d whole days after the limiter's start the daily limit is the
\* week_1 value for d in 0..6, the week_2 value for d in 7..13, the week_3
\* value for d in 14..20 and the week_4_plus value from d = 21 on, whatever
\* the four values are.
C24_WarmupTiers ==
    calc.fn = "daily_limit" =>
        LET d == DaysElapsed IN
        /\ d \in 0..6 => calc.result = calc.warmup.week_1
        /\ d \in 7..13 => calc.result = calc.warmup.week_2
        /\ d \in 14..20 => calc.result = calc.warmup.week_3
        /\ d >= 21 => calc.result = calc.warmup.week_4_plus

\* The limit was read on day 21, one second before day 22, with the tiers
\* 2, 5, 8, 12.
C24_Witness ==
    /\ calc.fn = "daily_limit"
    /\ calc.warmup = [week_1 |-> 2, week_2 |-> 5, week_3 |-> 8, week_4_plus |-> 12]
    /\ calc.t - calc.started_at = 22 * DaySeconds - 1
    /\ calc.result = 12

(***************************************************************************)
(* Claims about sentiment failures (SpecSentiment)                         *)
(***************************************************************************)
\* _process_reply got no sentiment for a detected reply: analyze_sentiment
\* returned None or did not return.
AnalysisFailedStep ==
    /\ \/ dm.pc = "sentiment" /\ dm'.pc = "idle"
       \/ poll.pc = "sentiment" /\ poll'.pc # "sentiment"
    /\ calc'.fn = "analyze_sentiment"
    /\ calc'.result \in {"null", "raise"}

\* C25: when the sentiment analysis of a detected reply fails, by a parse
\* failure or by a transport failure, the Reply is still stored, with the
\* sentiment "unclear", and the Lead becomes `replied` with replied_at
\* stamped.
C25_SentimentFailureNonFatal ==
    [][AnalysisFailedStep =>
         /\ Len(replies') = Len(replies) + 1
         /\ replies'[Len(replies')].lead_id = calc'.lead
         /\ replies'[Len(replies')].sentiment = "unclear"
         /\ leads'[calc'.lead].status = "replied"
         /\ leads'[calc'.lead].replied_at = now]_vars

(***************************************************************************)
(* Claims about messages of unknown channels (SpecIntake)                  *)
(***************************************************************************)
\* The processor takes from the queue a message whose chat id no channel
\* row carries.
UnknownChannelStep ==
    /\ queue # <<>>
    /\ queue' = Tail(queue)
    /\ \A i \in DOMAIN channels : channels[i].telegram_id # Head(queue).chat_id

\* C26: a queued message whose channel id matches no persisted Channel is
\* dropped: no Message, no Lead, no change of any persisted state; and the
\* processor loop is back at the queue for the next message.
C26_UnknownChannelDropped ==
    [][UnknownChannelStep =>
         /\ UNCHANGED dbVars
         /\ lastOutcome' = "unknown_channel"
         /\ running => loop'.processor = "get"]_vars

\* A message of an unknown chat was dropped, the next message is queued and
\* the processor is waiting for it.
C26_Witness ==
    /\ lastOutcome = "unknown_channel"
    /\ queue # <<>>
    /\ loop.processor = "get"
    /\ messages # <<>>

(***************************************************************************)
(* Claims about the dead-channel sweep (SpecDead)                          *)
(***************************************************************************)
\* Channel row i has a message with a lead, as get_dead_channels tests it.
HasProducedLead(i) ==
    \E l \in Range(leads) : messages[l.message_id].channel_id = channels[i].id

\* C27: the janitor deactivates a channel only if, when it is deactivated,
\* the channel is active, older than the minimum age and without any Lead,
\* whatever the intake loop does meanwhile; the deactivated channel leaves
\* the collector's monitored set, no row is deleted and no other channel's
\* is_active flag changes.
C27_DeadChannelSweep ==
    [][/\ Len(channels') = Len(channels)
       /\ \A i \in DOMAIN channels :
            channels'[i].is_active # channels[i].is_active =>
                /\ jan.pc = "deactivate"
                /\ jan.batch[jan.idx].id = channels[i].id
                /\ channels[i].is_active
                /\ channels[i].discovered_at # NoTime
                /\ now - channels[i].discovered_at > DeadChannelAgeDays * DaySeconds
                /\ ~HasProducedLead(i)
                /\ channels[i].telegram_id \notin monitored']_vars

(***************************************************************************)
(* Claims about the writers of the pause (SpecOutreach)                    *)
(***************************************************************************)
\* A step of the outreach loop task.
OutreachTaskStep ==
    OutreachCycle \/ OutreachCheck \/ OutreachSend \/ OutreachPersist \/ OutreachWait

\* C28: the pause-until timestamp is set or cleared only by the outreach
\* loop task; no other task or handler, the status-report command handler
\* included, ever modifies it.
C28_PauseSingleWriter ==
    [][pausedUntil' # pausedUntil => OutreachTaskStep]_vars

(***************************************************************************)
(* Claims about the dedup normalization (SpecDedup)                        *)
(***************************************************************************)
\* The normalization in the stated order: collapse every whitespace run to
\* one space, trim, lowercase.
StatedNormalization(text) == LowerText(Strip(CollapseSpaces(text)))

\* C29: two texts get the same dedup hash exactly when they are equal after
\* collapsing whitespace runs, trimming and lowercasing; the code's order
\* (trim, lowercase, collapse) yields the same normalized text as that
\* order; and normalizing a normalized text changes nothing.
C29_DedupNormalization ==
    calc.fn = "text_hash" =>
        /\ (calc.hash_a = calc.hash_b) <=>
               (StatedNormalization(calc.a) = StatedNormalization(calc.b))
        /\ calc.hash_a = StatedNormalization(calc.a)
        /\ calc.again = calc.hash_a

\* Two texts that differ in case, in the kind and number of whitespace and
\* in padding got the same hash.
C29_Witness ==
    /\ calc.fn = "text_hash"
    /\ calc.a = <<" ", "A", "\t">>
    /\ calc.b = <<"a">>
    /\ calc.hash_a = calc.hash_b

(***************************************************************************)
(* Claims about the discovery loop (SpecDiscLoop)                          *)
(***************************************************************************)
\* The discovery loop is in one of its two sleeps.
DiscoverySleeping == loop.discovery \in {"first_sleep", "sleep"}

\* C30: the discovery loop begins with a sleep of one interval, then
\* alternates one cycle with one sleep: registrations happen only inside a
\* cycle, every cycle is entered from a sleep and left into a sleep, also
\* when it raised, and the loop ends only from a sleep with the flag
\* cleared; after a cycle that raised, the next cycle runs once the sleep is
\* over (unless the pipeline was stopped).
C30_DiscoveryLoopOrder ==
    /\ loop.discovery = "first_sleep"
    /\ [][/\ loop'.discovery = "first_sleep" => loop.discovery = "first_sleep"
          /\ DiscoverySleeping =>
                /\ UNCHANGED discVars
                /\ loop'.discovery \in {loop.discovery, "cycle", "exited"}
                /\ loop'.discovery = "cycle" => running
                /\ loop'.discovery = "exited" => ~running
          /\ loop.discovery = "cycle" => loop'.discovery \in {"cycle", "sleep"}
          /\ loop.discovery = "exited" => loop'.discovery = "exited"]_vars
    /\ (loop.discovery = "sleep" /\ disc.outcome = "cycle_raised")
           ~> (loop.discovery = "cycle" \/ ~running)

\* A cycle raised, the loop slept, and the next cycle is running.
C30_Witness ==
    /\ loop.discovery = "cycle"
    /\ disc.outcome = "cycle_raised"
    /\ running

(***************************************************************************)
(* Claims about repeated forwarding (SpecReplies)                          *)
(***************************************************************************)
\* C31: whatever the interleaving of the private-reply listener, the thread
\* poller, the forwarding pass and the janitor, each Lead causes at most one
\* positive-reply notification, and with it at most one transition to
\* `forwarded`.
C31_ForwardedAtMostOnce ==
    \A i \in DOMAIN posNotes : posNotes[i] <= 1

(***************************************************************************)
(* Claims about repeated outreach (SpecOutreach)                           *)
(***************************************************************************)
\* C32: each Lead is sent outreach at most once.  The loop sends to the
\* Leads it finds in `new`, so this is: when an attempt whose thread message
\* was delivered is over, the Lead is no longer `new` (also when the private
\* message raised the flood signal or an error, or persisting failed).
C32_OutreachAtMostOnce ==
    (out.pc = "wait" /\ out.result.thread_sent) =>
        leads[out.batch[out.idx].id].status # "new"

(***************************************************************************)
(* Claims about the budget counter (SpecOutreach)                          *)
(***************************************************************************)
\* The dates on which a Lead was marked contacted.
ContactDates == {Today(leads[i].contacted_at) :
                    i \in {j \in DOMAIN leads : leads[j].contacted_at # NoTime}}

\* sends_used of the row of date d, 0 without a row.
SendsUsed(d) == IF d \in DOMAIN budget THEN budget[d].sends_used ELSE 0

\* The Leads marked contacted on date d.
ContactedOn(d) ==
    Cardinality({i \in DOMAIN leads : /\ leads[i].contacted_at # NoTime
                                      /\ Today(leads[i].contacted_at) = d})

\* C33: every transition of a Lead to `contacted` adds exactly 1 to the
\* sends_used of exactly one DailyBudget row, so for every date sends_used
\* equals the number of Leads marked contacted on that date, also when the
\* date changes between the budget check and the increment.
C33_BudgetMatchesSends ==
    \A d \in DOMAIN budget \cup ContactDates : SendsUsed(d) = ContactedOn(d)

(***************************************************************************)
(* Claims about the size of the budget row (SpecBudgetRow)                 *)
(***************************************************************************)
\* C34: the DailyBudget row an outreach cycle uses for its exhaustion check
\* has max_sends equal to the RateLimiter's daily allowance of that moment,
\* when the row was just created and when it existed already and the warmup
\* tier has changed since.
C34_BudgetRowSizedToLimit ==
    calc.fn = "budget_row" => calc.row.max_sends = calc.limit

(***************************************************************************)
(* Claims about one discovery cycle (SpecCycle)                            *)
(***************************************************************************)
\* The phases of run_cycle in their order.
PhaseRank(phase) ==
    IF phase = "search" THEN 1
    ELSE IF phase \in {"forwards", "forward_scan"} THEN 2
    ELSE IF phase \in {"descriptions", "description_scan"} THEN 3
    ELSE 4

\* A forward extraction or a description scraping is started on a channel.
StrategyInvokedStep ==
    /\ calc.phase \in {"forwards", "descriptions"}
    /\ calc'.phase \in {"forward_scan", "description_scan"}

\* C35: within one run_cycle the strategies run in the order keyword
\* search, forward extraction, description scraping, every registration
\* attempt carries the tag of the strategy that is running, and once the
\* capacity ceiling has been reached no forward extraction and no
\* description scraping is started on any channel.
C35_CycleOrderAndShortCircuit ==
    [][/\ PhaseRank(calc'.phase) >= PhaseRank(calc.phase)
       /\ disc'.attempts # disc.attempts =>
              disc'.source = PhaseStrategy(calc.phase)
       /\ StrategyInvokedStep => ~AtCapacity]_vars

(***************************************************************************)
(* Claims about the discovery registry (SpecRegistry)                      *)
(***************************************************************************)
\* A _try_register call for an id that is neither known nor rejected, made
\* below the capacity ceiling, whose id has a row in the channels table.
StoredCandidateStep ==
    /\ disc'.attempts = disc.attempts + 1
    /\ ~AlreadySeen(disc'.id)
    /\ ~AtCapacity
    /\ GetChannelByTelegramId(disc'.id) # {}

\* A step of the discovery task.
DiscoveryTaskStep == disc' # disc

\* C36: a registration attempt below capacity that finds the candidate id
\* stored as a Channel adds the id to known_ids and returns false, leaving
\* the channels table, rejected_ids and the monitored set unchanged; and no
\* step of discovery sets an inactive row active or subscribes the collector
\* to the chat of an inactive row.
C36_StoredCandidateSkipped ==
    /\ [][StoredCandidateStep =>
            /\ knownIds' = knownIds \cup {disc'.id}
            /\ disc'.pc = "idle"
            /\ disc'.outcome # "registered"
            /\ channels' = channels
            /\ rejectedIds' = rejectedIds
            /\ monitored' = monitored]_vars
    /\ [][DiscoveryTaskStep =>
            \A i \in DOMAIN channels :
                ~channels[i].is_active =>
                    /\ ~channels'[i].is_active
                    /\ channels[i].telegram_id \in monitored' =>
                           channels[i].telegram_id \in monitored]_vars

\* The janitor has deactivated channel 103 in this run, and the id of the
\* channel deactivated before the restart has just been met by discovery.
C36_Witness ==
    /\ disc.outcome = "existing"
    /\ disc.id = 102
    /\ 102 \in knownIds
    /\ ~channels[2].is_active
    /\ ~channels[3].is_active
    /\ 102 \notin monitored

\* The platform ids of the rows discovery has inserted since init(): the
\* run starts at time 0, older rows carry an earlier discovered_at or none.
PersistedThisRun ==
    {c.telegram_id : c \in {r \in Range(channels) :
                                r.discovered_at # NoTime /\ r.discovered_at >= 0}}

\* C37: after init() known_ids and rejected_ids are disjoint, neither set
\* ever loses an element (also when the janitor deactivates a channel), and
\* every channel id discovery has persisted and subscribed is in known_ids.
C37_RegistryInvariant ==
    /\ [](knownIds \cap rejectedIds = {})
    /\ [](PersistedThisRun \subseteq knownIds)
    /\ [][/\ knownIds \subseteq knownIds'
           /\ rejectedIds \subseteq rejectedIds']_vars

\* One candidate was rejected, another persisted and subscribed, and the
\* janitor has deactivated and unsubscribed the known channel 103.
C37_Witness ==
    /\ rejectedIds # {}
    /\ PersistedThisRun # {}
    /\ PersistedThisRun \subseteq monitored
    /\ ~channels[3].is_active
    /\ 103 \in knownIds
    /\ 103 \notin monitored

\* A _try_register call whose get_entity raised: the candidate came without
\* username and title (a forward), was not seen before, has no row, and the
\* ceiling was not reached.
UnresolvedStep ==
    /\ disc'.attempts = disc.attempts + 1
    /\ disc'.outcome = "unresolved"

\* C38: a registration attempt whose candidate cannot be resolved returns
\* false and leaves known_ids, rejected_ids, the channels table and the
\* monitored set unchanged, so that the next attempt for the same id is not
\* cut short as already seen.
C38_UnresolvedNotRejected ==
    /\ [][UnresolvedStep =>
            /\ disc'.pc = "idle"
            /\ disc'.source = "forward"
            /\ knownIds' = knownIds
            /\ rejectedIds' = rejectedIds
            /\ channels' = channels
            /\ monitored' = monitored
            /\ disc'.id \notin knownIds' \cup rejectedIds']_vars
    /\ [][(disc.outcome = "unresolved" /\ disc'.attempts = disc.attempts + 1
             /\ disc'.id = disc.id)
            => disc'.outcome \notin {"known", "rejected_before"}]_vars

\* A forwarded candidate has just failed to resolve, after another
\* candidate was rejected by validation: it is in neither set and has no row.
C38_Witness ==
    /\ disc.outcome = "unresolved"
    /\ disc.source = "forward"
    /\ rejectedIds # {}
    /\ ~AlreadySeen(disc.id)
    /\ GetChannelByTelegramId(disc.id) = {}

(***************************************************************************)
(* Claims about the classifier's invocations (SpecIntake)                  *)
(***************************************************************************)
\* The Message rows of one (channel, platform message id) pair for which the
\* classifier was invoked: every row has its verdict, and only a row dropped
\* as a duplicate text got it without the classifier.
Classifications(c, m) ==
    {i \in DOMAIN verdicts : /\ verdicts[i] # "dup_hash"
                             /\ messages[i].channel_id = c
                             /\ messages[i].telegram_msg_id = m}

\* The queued message's pair is persisted, and its classification raised or
\* returned null.
RedeliveredUnclassified(incoming) ==
    \E c \in GetChannelByTelegramId(incoming.chat_id) :
        \E i \in Classifications(c.id, incoming.telegram_msg_id) :
            verdicts[i] \in {"raise", "null"}

\* C39: for every (channel, platform message id) pair the classifier is
\* invoked at most once over any sequence of deliveries; the re-delivery of
\* a message whose classification raised or returned null is dropped as a
\* duplicate, with no classification and no new row.
C39_ClassifiedAtMostOnce ==
    /\ [](\A c \in DOMAIN channels, i \in DOMAIN messages :
             Cardinality(Classifications(c, messages[i].telegram_msg_id)) <= 1)
    /\ [](Len(verdicts) = Len(messages))
    /\ [][(queue # <<>> /\ queue' = Tail(queue) /\ RedeliveredUnclassified(Head(queue)))
            => /\ lastOutcome' = "duplicate"
               /\ verdicts' = verdicts
               /\ messages' = messages
               /\ leads' = leads]_vars

\* The only stored message got no classification result, and its
\* re-delivery has just been dropped.
C39_Witness ==
    /\ Len(messages) = 1
    /\ verdicts[1] \in {"raise", "null"}
    /\ lastOutcome = "duplicate"
    /\ delivered >= 2

(***************************************************************************)
(* Claims about the timestamps of a Lead (SpecPipeline)                    *)
(***************************************************************************)
\* C40: in every reachable state a Lead in status new has contacted_at,
\* replied_at and forwarded_at unset; a Lead in status contacted, replied,
\* forwarded, negative or no_reply has contacted_at set; a Lead in status
\* replied, forwarded or negative has replied_at set and at least one Reply;
\* and forwarded_at is set exactly when the status is forwarded.
C40_TimestampsMatchStatus ==
    \A i \in DOMAIN leads :
        LET l == leads[i] IN
        /\ l.status = "new" =>
               /\ l.contacted_at = NoTime
               /\ l.replied_at = NoTime
               /\ l.forwarded_at = NoTime
        /\ l.status \in {"contacted", "replied", "forwarded", "negative", "no_reply"} =>
               l.contacted_at # NoTime
        /\ l.status \in {"replied", "forwarded", "negative"} =>
               /\ l.replied_at # NoTime
               /\ GetRepliesForLead(i) # <<>>
        /\ l.forwarded_at # NoTime <=> l.status = "forwarded"

\* The janitor has written no_reply from its copy over a lead whose reply
\* was recorded in the meantime.
C40_Witness ==
    \E i \in DOMAIN leads :
        /\ leads[i].status = "no_reply"
        /\ leads[i].contacted_at # NoTime
        /\ GetRepliesForLead(i) # <<>>

====
